---- MODULE Spec2Model ----
(***************************************************************************)
(* Learner Profile Store, Exam Session Manager and Recommendation Engine   *)
(* of the adaptive exam platform (learner_profile.py, exam_session.py,     *)
(* recommendation_engine.py), as a state machine.                          *)
(*                                                                         *)
(* Conventions.                                                            *)
(*  - A Python str is a sequence of chunks (<<"A"," ","a">> is "A a"), so  *)
(*    that lower(), strip() and replace(' ', '_') are computed, not        *)
(*    assumed.  A skill id is such a string too.                           *)
(*  - An Optional value is a sequence of length 0 (None) or 1.             *)
(*  - A dict is an ordered mapping (Python keeps insertion order): the     *)
(*    per-skill and per-topic tables are sequences of entries in insertion *)
(*    order; the manager's top-level tables are functions whose DOMAIN is  *)
(*    the set of keys present.                                             *)
(*  - A float quotient c/n is the exact fraction [num |-> c, den |-> n].   *)
(*    For the counters reached here IEEE division is correctly rounded and *)
(*    every threshold (0.5, 0.6, 0.7, 0.75, 0.8, 0.85) differs from any    *)
(*    other c/n by far more than one ulp, so comparing the fractions gives *)
(*    what comparing the floats gives.                                     *)
(*  - Fields that no modelled operation reads (question_type,              *)
(*    question_data, time_spent_seconds, timestamps of attempts and of     *)
(*    profiles) are left out of the records.                               *)
(*  - A handler is a function from the state and its arguments to an       *)
(*    outcome, a return value and the tables it leaves behind (the         *)
(*    ..._step operators); its action installs those tables.  A call that  *)
(*    raises leaves every table as it was.  A query that changes nothing   *)
(*    is an operator over the state.                                       *)
(***************************************************************************)
EXTENDS Integers, Sequences, FiniteSets, TLC

VARIABLES
    profiles,       \* LearnerProfileManager.profiles : learner_id -> LearnerProfile
    disk_profiles,  \* learner_data/<learner_id>.json
    sessions,       \* ExamSessionManager.sessions : session_id -> ExamSession
    disk_sessions,  \* exam_sessions/<session_id>.json
    now,            \* datetime.now(), in whole seconds
    snapshot,       \* a performance snapshot handed to the milestone walk
    milestone,      \* what the milestone walk returned for it (Optional)
    pending,        \* a record_attempt call part-way through its body (Optional)
    running         \* thread -> the call that thread is part-way through (Optional)

vars == <<profiles, disk_profiles, sessions, disk_sessions, now, snapshot, milestone, pending, running>>

(***************************************************************************)
(* Bounds of the model.                                                    *)
(***************************************************************************)
MaxAttempts == 2        \* attempts per profile, Spec and SpecScore
MaxProfAttempts == 4    \* attempts per profile, specification SpecProfile
MaxTierAttempts == 10   \* attempts per profile, specification SpecTier
MaxQuestions == 2       \* questions per session, Spec and SpecScore
MaxSessQuestions == 4   \* questions per session, specification SpecSession
MaxSessions == 1        \* sessions held by the manager
MaxClock == 1           \* the clock runs over 0..MaxClock
MaxExams == 1           \* exam records per profile
MaxMQuestions == 113    \* total_questions of a snapshot, specification SpecMilestone
MaxMTopics == 4         \* topics_practiced of a snapshot
MaxMExams == 3          \* exams_completed of a snapshot
MaxStoreAttempts == 1   \* attempts per profile, specification SpecStore
MaxAtomicAttempts == 3  \* attempts per profile, specification SpecAtomic
MaxOrderQuestions == 3  \* questions per session, specification SpecOrder
MaxOrderClock == 2      \* the clock runs over 0..MaxOrderClock in SpecOrder
MaxFinalize == 2        \* exam records per profile, specification SpecFinalize
MaxClimbQuestions == 27
MaxClimbTopics == 3
MaxClimbExams == 3
MaxRaceAttempts == 2
MaxSubmitAttempts == 2
MaxSubmitQuestions == 2
MaxPlanAttempts == 3
MaxPlanQuestions == 12
MaxTopicAttempts == 3
MaxAdaptiveQuestions == 3
MaxSummaryQuestions == 2

(***************************************************************************)
(* Strings.                                                                *)
(***************************************************************************)
TopicA == <<"A", " ", "a">>          \* "A a"
TopicB == <<"a", " ", "a", " ">>     \* "a a " : the same topic once normalised
NoTopic == <<>>                      \* ""
BlankTopic == <<" ">>                \* " "
SkillA == <<"skill_a">>
SkillB == <<"skill_b">>
SkillC == <<"skill_c">>
TopicC == <<"b">>                    \* "b"

char_lower(c) == IF c = "A" THEN "a" ELSE c
str_lower(s) == [i \in 1..Len(s) |-> char_lower(s[i])]
char_upper(c) == IF c = "a" THEN "A" ELSE IF c = "b" THEN "B" ELSE c

\* str.title(): a letter that starts the string or follows a non-letter is
\* upper-cased, every other letter lower-cased.
str_title(s) ==
    [i \in 1..Len(s) |->
        IF i = 1 \/ s[i - 1] = " " THEN char_upper(s[i]) ELSE char_lower(s[i])]

str_replace_space(s) == [i \in 1..Len(s) |-> IF s[i] = " " THEN "_" ELSE s[i]]

RECURSIVE str_lstrip(_)
str_lstrip(s) == IF s # <<>> /\ Head(s) = " " THEN str_lstrip(Tail(s)) ELSE s

RECURSIVE str_rstrip(_)
str_rstrip(s) ==
    IF s # <<>> /\ s[Len(s)] = " " THEN str_rstrip(SubSeq(s, 1, Len(s) - 1)) ELSE s

str_strip(s) == str_rstrip(str_lstrip(s))

\* f"topic_{topic.lower().replace(' ', '_')}"
topic_skill_id(topic) == <<"topic_">> \o str_replace_space(str_lower(topic))

(***************************************************************************)
(* Fractions.                                                              *)
(***************************************************************************)
Frac(n, d) == [num |-> n, den |-> d]
frac_ge(f, p, q) == f.num * q >= p * f.den        \* f >= p/q
frac_lt(f, p, q) == f.num * q < p * f.den         \* f <  p/q
frac_le(f, g) == f.num * g.den <= g.num * f.den   \* f <= g
frac_eq(f, g) == f.num * g.den = g.num * f.den    \* f =  g

None == <<>>
Some(x) == <<x>>

(***************************************************************************)
(* Learner Profile Store.                                                  *)
(***************************************************************************)
QuestionAttempt(skill_ids, topic, correct, exam_session_id) ==
    [skill_ids |-> skill_ids, topic |-> topic, correct |-> correct,
     exam_session_id |-> exam_session_id]

LearnerProfile(learner_id, name, role) ==
    [learner_id |-> learner_id, name |-> name, role |-> role, attempts |-> <<>>, skill_performance |-> <<>>,
     topic_performance |-> <<>>, exam_history |-> <<>>]

\* _calculate_proficiency with the accuracy >= 0.8 bracket test off by one
\* comparison (>) : a plausible slip.
calculate_proficiency_strict(accuracy, attempts) ==
    IF attempts < 2 THEN "novice"
    ELSE IF attempts < 4 THEN (IF frac_ge(accuracy, 1, 2) THEN "beginner" ELSE "novice")
    ELSE IF attempts < 8 THEN
        (IF ~frac_ge(Frac(4, 5), accuracy.num, accuracy.den) THEN "advanced"
         ELSE IF frac_ge(accuracy, 3, 5) THEN "intermediate"
         ELSE "beginner")
    ELSE
        (IF frac_ge(accuracy, 17, 20) THEN "expert"
         ELSE IF frac_ge(accuracy, 3, 4) THEN "advanced"
         ELSE IF frac_ge(accuracy, 3, 5) THEN "intermediate"
         ELSE "beginner")

\* _calculate_proficiency asking 0.9 for advanced once 8 attempts are in.
calculate_proficiency_steep(accuracy, attempts) ==
    IF attempts < 2 THEN "novice"
    ELSE IF attempts < 4 THEN (IF frac_ge(accuracy, 1, 2) THEN "beginner" ELSE "novice")
    ELSE IF attempts < 8 THEN
        (IF frac_ge(accuracy, 4, 5) THEN "advanced"
         ELSE IF frac_ge(accuracy, 3, 5) THEN "intermediate"
         ELSE "beginner")
    ELSE
        (IF frac_ge(accuracy, 19, 20) THEN "expert"
         ELSE IF frac_ge(accuracy, 9, 10) THEN "advanced"
         ELSE IF frac_ge(accuracy, 3, 5) THEN "intermediate"
         ELSE "beginner")

_calculate_proficiency(accuracy, attempts) ==
    IF attempts < 2 THEN "novice"
    ELSE IF attempts < 4 THEN (IF frac_ge(accuracy, 1, 2) THEN "beginner" ELSE "novice")
    ELSE IF attempts < 8 THEN
        (IF frac_ge(accuracy, 4, 5) THEN "advanced"
         ELSE IF frac_ge(accuracy, 3, 5) THEN "intermediate"
         ELSE "beginner")
    ELSE
        (IF frac_ge(accuracy, 17, 20) THEN "expert"
         ELSE IF frac_ge(accuracy, 3, 4) THEN "advanced"
         ELSE IF frac_ge(accuracy, 3, 5) THEN "intermediate"
         ELSE "beginner")

\* One pass of the loop over attempt.skill_ids in record_attempt.
update_skill(sp, skill_id, correct) ==
    LET sp1 == IF \E j \in 1..Len(sp) : sp[j].skill_id = skill_id THEN sp
               ELSE Append(sp, [skill_id |-> skill_id, total_attempts |-> 0,
                                correct_attempts |-> 0, accuracy |-> Frac(0, 1),
                                proficiency_level |-> "novice"])
        i == CHOOSE j \in 1..Len(sp1) : sp1[j].skill_id = skill_id
        total == sp1[i].total_attempts + 1
        corr == sp1[i].correct_attempts + (IF correct THEN 1 ELSE 0)
        acc == Frac(corr, total)
    IN  [sp1 EXCEPT ![i] = [skill_id |-> skill_id, total_attempts |-> total,
                            correct_attempts |-> corr, accuracy |-> acc,
                            proficiency_level |-> _calculate_proficiency(acc, total)]]

RECURSIVE update_skills(_, _, _)
update_skills(sp, skill_ids, correct) ==
    IF skill_ids = <<>> THEN sp
    ELSE update_skills(update_skill(sp, Head(skill_ids), correct), Tail(skill_ids), correct)

\* The topic block keyed by attempt.topic.lower(), the strip() forgotten.
update_topic_unstripped(tp, raw_topic, correct) ==
    LET topic == str_lower(raw_topic)
    IN  IF topic = <<>> THEN tp
        ELSE
          LET tp1 == IF \E j \in 1..Len(tp) : tp[j].topic = topic THEN tp
                     ELSE Append(tp, [topic |-> topic, total_attempts |-> 0,
                                      correct_attempts |-> 0, accuracy |-> Frac(0, 1)])
              i == CHOOSE j \in 1..Len(tp1) : tp1[j].topic = topic
              total == tp1[i].total_attempts + 1
              corr == tp1[i].correct_attempts + (IF correct THEN 1 ELSE 0)
          IN  [tp1 EXCEPT ![i] = [topic |-> topic, total_attempts |-> total,
                                  correct_attempts |-> corr,
                                  accuracy |-> Frac(corr, total)]]

\* The topic block of record_attempt.
update_topic(tp, raw_topic, correct) ==
    LET topic == str_strip(str_lower(raw_topic))
    IN  IF topic = <<>> THEN tp
        ELSE
          LET tp1 == IF \E j \in 1..Len(tp) : tp[j].topic = topic THEN tp
                     ELSE Append(tp, [topic |-> topic, total_attempts |-> 0,
                                      correct_attempts |-> 0, accuracy |-> Frac(0, 1)])
              i == CHOOSE j \in 1..Len(tp1) : tp1[j].topic = topic
              total == tp1[i].total_attempts + 1
              corr == tp1[i].correct_attempts + (IF correct THEN 1 ELSE 0)
          IN  [tp1 EXCEPT ![i] = [topic |-> topic, total_attempts |-> total,
                                  correct_attempts |-> corr,
                                  accuracy |-> Frac(corr, total)]]

\* The body of record_attempt once the profile is found.
record_attempt_in(profile, attempt) ==
    [profile EXCEPT
        !.attempts = Append(@, attempt),
        !.skill_performance = update_skills(@, attempt.skill_ids, attempt.correct),
        !.topic_performance = update_topic(@, attempt.topic, attempt.correct)]

\* _save_profile that returns without writing the file.
save_profile_dropped(disk, profile) == disk

\* _load_profiles: every file of the directory is parsed and the profile is
\* stored under the learner_id it carries (not under the file's name).
_load_profiles(disk) ==
    [l \in {disk[f].learner_id : f \in DOMAIN disk} |->
        disk[CHOOSE f \in DOMAIN disk : disk[f].learner_id = l]]

\* _save_profile: the file <learner_id>.json is rewritten in full.
_save_profile(disk, profile) == (profile.learner_id :> profile) @@ disk

(***************************************************************************)
(* What a handler leaves behind.                                           *)
(***************************************************************************)
Step(outcome, value, p, dp, s, ds) ==
    [outcome |-> outcome, value |-> value, profiles |-> p, disk_profiles |-> dp,
     sessions |-> s, disk_sessions |-> ds]

Install(r) ==
    /\ profiles' = r.profiles
    /\ disk_profiles' = r.disk_profiles
    /\ sessions' = r.sessions
    /\ disk_sessions' = r.disk_sessions

\* create_profile without the `if learner_id in self.profiles` test.
create_profile_step_overwrites(learner_id, name, role) ==
    LET profile == LearnerProfile(learner_id, name, role)
    IN  Step("ok", <<profile>>, (learner_id :> profile) @@ profiles,
             _save_profile(disk_profiles, profile), sessions, disk_sessions)

create_profile_step(learner_id, name, role) ==
    IF learner_id \in DOMAIN profiles
    THEN Step("ok", <<profiles[learner_id]>>, profiles, disk_profiles, sessions, disk_sessions)
    ELSE LET profile == LearnerProfile(learner_id, name, role)
         IN  Step("ok", <<profile>>, (learner_id :> profile) @@ profiles,
                  _save_profile(disk_profiles, profile), sessions, disk_sessions)

\* record_attempt that creates the missing profile instead of raising.
record_attempt_step_upsert(learner_id, attempt) ==
    LET found == IF learner_id \in DOMAIN profiles THEN profiles[learner_id]
                 ELSE LearnerProfile(learner_id, "", "")
        profile == record_attempt_in(found, attempt)
    IN  Step("ok", <<>>, (learner_id :> profile) @@ profiles,
             _save_profile(disk_profiles, profile), sessions, disk_sessions)

record_attempt_step(learner_id, attempt) ==
    IF learner_id \notin DOMAIN profiles
    THEN Step("not_found", <<>>, profiles, disk_profiles, sessions, disk_sessions)
    ELSE LET profile == record_attempt_in(profiles[learner_id], attempt)
         IN  Step("ok", <<>>, [profiles EXCEPT ![learner_id] = profile],
                  _save_profile(disk_profiles, profile), sessions, disk_sessions)

record_exam_completion_step(learner_id, exam_record) ==
    IF learner_id \notin DOMAIN profiles
    THEN Step("not_found", <<>>, profiles, disk_profiles, sessions, disk_sessions)
    ELSE LET profile == [profiles[learner_id] EXCEPT !.exam_history = Append(@, exam_record)]
         IN  Step("ok", <<>>, [profiles EXCEPT ![learner_id] = profile],
                  _save_profile(disk_profiles, profile), sessions, disk_sessions)

create_profile(learner_id, name, role) ==
    /\ Install(create_profile_step(learner_id, name, role))
    /\ UNCHANGED <<now, snapshot, milestone, pending, running>>

record_attempt(learner_id, attempt) ==
    /\ Install(record_attempt_step(learner_id, attempt))
    /\ UNCHANGED <<now, snapshot, milestone, pending, running>>

record_exam_completion(learner_id, exam_record) ==
    /\ Install(record_exam_completion_step(learner_id, exam_record))
    /\ UNCHANGED <<now, snapshot, milestone, pending, running>>

(***************************************************************************)
(* record_attempt statement by statement, as another request's thread sees *)
(* it: the endpoints are plain `def` handlers, which the server runs on a  *)
(* thread pool, and record_attempt takes no lock.                          *)
(***************************************************************************)
Pending(learner_id, attempt, rest, pc) ==
    [learner_id |-> learner_id, attempt |-> attempt, rest |-> rest, pc |-> pc]

\* profile = self.profiles.get(learner_id); profile.attempts.append(attempt)
record_attempt_append(learner_id, attempt) ==
    /\ pending = None
    /\ learner_id \in DOMAIN profiles
    /\ profiles' = [profiles EXCEPT ![learner_id].attempts = Append(@, attempt)]
    /\ pending' = Some(Pending(learner_id, attempt, attempt.skill_ids, "skills"))
    /\ UNCHANGED <<disk_profiles, sessions, disk_sessions, now, snapshot, milestone, running>>

\* One pass of `for skill_id in attempt.skill_ids`.
record_attempt_skill ==
    /\ pending # None
    /\ pending[1].pc = "skills" /\ pending[1].rest # <<>>
    /\ profiles' = [profiles EXCEPT ![pending[1].learner_id].skill_performance =
                        update_skill(@, Head(pending[1].rest), pending[1].attempt.correct)]
    /\ pending' = Some([pending[1] EXCEPT !.rest = Tail(@)])
    /\ UNCHANGED <<disk_profiles, sessions, disk_sessions, now, snapshot, milestone, running>>

\* The topic block, once the loop is over.
record_attempt_topic ==
    /\ pending # None
    /\ pending[1].pc = "skills" /\ pending[1].rest = <<>>
    /\ profiles' = [profiles EXCEPT ![pending[1].learner_id].topic_performance =
                        update_topic(@, pending[1].attempt.topic, pending[1].attempt.correct)]
    /\ pending' = Some([pending[1] EXCEPT !.pc = "save"])
    /\ UNCHANGED <<disk_profiles, sessions, disk_sessions, now, snapshot, milestone, running>>

\* self._save_profile(profile) and return.
record_attempt_save ==
    /\ pending # None
    /\ pending[1].pc = "save"
    /\ disk_profiles' = _save_profile(disk_profiles, profiles[pending[1].learner_id])
    /\ pending' = None
    /\ UNCHANGED <<profiles, sessions, disk_sessions, now, snapshot, milestone, running>>

(***************************************************************************)
(* record_attempt on two threads of the pool, the `perf.total_attempts    *)
(* += 1` of the skill loop as the load and the store it is made of.        *)
(***************************************************************************)
Call(learner_id, attempt, rest, pc, loaded) ==
    [learner_id |-> learner_id, attempt |-> attempt, rest |-> rest, pc |-> pc, loaded |-> loaded]

\* profile = self.profiles.get(learner_id); profile.attempts.append(attempt)
race_append(t, learner_id, attempt) ==
    /\ running[t] = None
    /\ learner_id \in DOMAIN profiles
    /\ profiles' = [profiles EXCEPT ![learner_id].attempts = Append(@, attempt)]
    /\ running' = [running EXCEPT ![t] = Some(Call(learner_id, attempt, attempt.skill_ids, "skills", 0))]
    /\ UNCHANGED <<disk_profiles, sessions, disk_sessions, now, snapshot, milestone, pending>>

\* The skill loop up to the load of perf.total_attempts: the entry is made
\* when missing, and its total is read.
race_load(t) ==
    /\ running[t] # None
    /\ running[t][1].pc = "skills" /\ running[t][1].rest # <<>>
    /\ LET call == running[t][1]
           skill_id == Head(call.rest)
           sp == profiles[call.learner_id].skill_performance
           sp1 == IF \E j \in 1..Len(sp) : sp[j].skill_id = skill_id THEN sp
                  ELSE Append(sp, [skill_id |-> skill_id, total_attempts |-> 0,
                                   correct_attempts |-> 0, accuracy |-> Frac(0, 1),
                                   proficiency_level |-> "novice"])
           i == CHOOSE j \in 1..Len(sp1) : sp1[j].skill_id = skill_id
       IN  /\ profiles' = [profiles EXCEPT ![call.learner_id].skill_performance = sp1]
           /\ running' = [running EXCEPT ![t] =
                              Some([call EXCEPT !.pc = "store", !.loaded = sp1[i].total_attempts])]
    /\ UNCHANGED <<disk_profiles, sessions, disk_sessions, now, snapshot, milestone, pending>>

\* The store of perf.total_attempts and the rest of the loop body.
race_store(t) ==
    /\ running[t] # None
    /\ running[t][1].pc = "store"
    /\ LET call == running[t][1]
           skill_id == Head(call.rest)
           sp == profiles[call.learner_id].skill_performance
           i == CHOOSE j \in 1..Len(sp) : sp[j].skill_id = skill_id
           total == call.loaded + 1
           corr == sp[i].correct_attempts + (IF call.attempt.correct THEN 1 ELSE 0)
           acc == Frac(corr, total)
       IN  /\ profiles' = [profiles EXCEPT ![call.learner_id].skill_performance[i] =
                              [skill_id |-> skill_id, total_attempts |-> total,
                               correct_attempts |-> corr, accuracy |-> acc,
                               proficiency_level |-> _calculate_proficiency(acc, total)]]
           /\ running' = [running EXCEPT ![t] =
                              Some([call EXCEPT !.pc = "skills", !.rest = Tail(@)])]
    /\ UNCHANGED <<disk_profiles, sessions, disk_sessions, now, snapshot, milestone, pending>>

\* The topic block, once the loop is over.
race_topic(t) ==
    /\ running[t] # None
    /\ running[t][1].pc = "skills" /\ running[t][1].rest = <<>>
    /\ profiles' = [profiles EXCEPT ![running[t][1].learner_id].topic_performance =
                        update_topic(@, running[t][1].attempt.topic, running[t][1].attempt.correct)]
    /\ running' = [running EXCEPT ![t] = Some([running[t][1] EXCEPT !.pc = "save"])]
    /\ UNCHANGED <<disk_profiles, sessions, disk_sessions, now, snapshot, milestone, pending>>

\* self._save_profile(profile) and return.
race_save(t) ==
    /\ running[t] # None
    /\ running[t][1].pc = "save"
    /\ disk_profiles' = _save_profile(disk_profiles, profiles[running[t][1].learner_id])
    /\ running' = [running EXCEPT ![t] = None]
    /\ UNCHANGED <<profiles, sessions, disk_sessions, now, snapshot, milestone, pending>>

\* The dict entries get_skill_gaps and get_strengths build.
skill_entry(e) ==
    [skill_id |-> e.skill_id, accuracy |-> e.accuracy,
     attempts |-> e.total_attempts, proficiency |-> e.proficiency_level]

is_gap(e) == frac_lt(e.accuracy, 7, 10) /\ e.total_attempts >= 1
is_strength(e) == frac_ge(e.accuracy, 7, 10) /\ e.total_attempts >= 1

\* list.sort(key=accuracy) is stable: an element goes after the elements that
\* precede it in the list and whose key is not greater.
RECURSIVE sort_ascending(_)
sort_ascending(s) ==
    IF s = <<>> THEN <<>>
    ELSE LET x == s[Len(s)]
             r == sort_ascending(SubSeq(s, 1, Len(s) - 1))
             p == Cardinality({j \in 1..Len(r) : frac_le(r[j].accuracy, x.accuracy)})
         IN  SubSeq(r, 1, p) \o <<x>> \o SubSeq(r, p + 1, Len(r))

\* get_strengths without reverse=True: the strengths come out weakest first.
sort_descending_forgot_reverse(s) == sort_ascending(s)

\* list.sort(key=accuracy, reverse=True) is stable too.
RECURSIVE sort_descending(_)
sort_descending(s) ==
    IF s = <<>> THEN <<>>
    ELSE LET x == s[Len(s)]
             r == sort_descending(SubSeq(s, 1, Len(s) - 1))
             p == Cardinality({j \in 1..Len(r) : frac_le(x.accuracy, r[j].accuracy)})
         IN  SubSeq(r, 1, p) \o <<x>> \o SubSeq(r, p + 1, Len(r))

map_skill_entry(s) == [i \in 1..Len(s) |-> skill_entry(s[i])]

get_skill_gaps(learner_id) ==
    IF learner_id \notin DOMAIN profiles THEN <<>>
    ELSE sort_ascending(map_skill_entry(
             SelectSeq(profiles[learner_id].skill_performance, is_gap)))

get_strengths(learner_id) ==
    IF learner_id \notin DOMAIN profiles THEN <<>>
    ELSE sort_descending(map_skill_entry(
             SelectSeq(profiles[learner_id].skill_performance, is_strength)))

\* The dict entries get_topic_weaknesses builds.
topic_entry(e) ==
    [topic |-> str_title(e.topic), accuracy |-> e.accuracy,
     attempts |-> e.total_attempts, correct |-> e.correct_attempts]

map_topic_entry(s) == [i \in 1..Len(s) |-> topic_entry(s[i])]

get_topic_weaknesses(learner_id) ==
    IF learner_id \notin DOMAIN profiles THEN <<>>
    ELSE sort_ascending(map_topic_entry(
             SelectSeq(profiles[learner_id].topic_performance, is_gap)))

\* s[:n]
first_n(s, n) == IF Len(s) <= n THEN s ELSE SubSeq(s, 1, n)

(***************************************************************************)
(* Exam Session Manager.                                                   *)
(***************************************************************************)
ExamQuestion(question_id, topic, difficulty, skill_ids, correct_answer) ==
    [question_id |-> question_id, topic |-> topic, difficulty |-> difficulty,
     skill_ids |-> skill_ids, correct_answer |-> correct_answer,
     user_answer |-> None, is_correct |-> None, timestamp |-> None]

\* f"exam_{learner_id}_{datetime.now().strftime('%Y%m%d_%H%M%S')}": the clock
\* enters the id with a resolution of one second.
session_id_of(learner_id, t) == <<"exam_", learner_id, t>>

ExamSession(learner_id, t) ==
    [session_id |-> session_id_of(learner_id, t), learner_id |-> learner_id,
     questions |-> <<>>, start_time |-> t, end_time |-> None, score |-> None,
     status |-> "in_progress"]

ExamRecord(exam_id, total, correct, score) ==
    [exam_id |-> exam_id, total_questions |-> total, correct_answers |-> correct,
     score |-> score]

\* _load_sessions: every file is parsed and the session is stored under the
\* session_id it carries.
_load_sessions(disk) ==
    [sid \in {disk[f].session_id : f \in DOMAIN disk} |->
        disk[CHOOSE f \in DOMAIN disk : disk[f].session_id = sid]]

\* _save_session: the file <session_id>.json is rewritten in full.
_save_session(disk, session) == (session.session_id :> session) @@ disk

create_session_step(learner_id) ==
    LET session == ExamSession(learner_id, now)
    IN  Step("ok", <<session>>, profiles, disk_profiles,
             (session.session_id :> session) @@ sessions,
             _save_session(disk_sessions, session))

add_question_to_session_step(session_id, question_id, topic, difficulty, skill_ids, correct_answer) ==
    IF session_id \notin DOMAIN sessions
    THEN Step("not_found", <<>>, profiles, disk_profiles, sessions, disk_sessions)
    ELSE LET ids == IF skill_ids = <<>> THEN <<topic_skill_id(topic)>> ELSE skill_ids
             question == ExamQuestion(question_id, topic, difficulty, ids, correct_answer)
             session == [sessions[session_id] EXCEPT !.questions = Append(@, question)]
         IN  Step("ok", <<>>, profiles, disk_profiles,
                  [sessions EXCEPT ![session_id] = session],
                  _save_session(disk_sessions, session))

\* session.questions[question_index]: Python counts a negative index from the
\* end of the list and raises IndexError outside -len..len-1.
list_position(question_index, length) ==
    IF question_index >= 0 THEN question_index + 1 ELSE length + question_index + 1

\* The guard of submit_answer: `if question_index >= len(session.questions)`.
index_out_of_range(question_index, length) == question_index >= length

\* The attempt submit_answer builds from the answered question.
attempt_of(question, session_id) ==
    QuestionAttempt(
        IF question.skill_ids # <<>> THEN question.skill_ids
        ELSE <<topic_skill_id(question.topic)>>,
        question.topic, question.is_correct[1], Some(session_id))

\* submit_answer without the try/except around record_attempt: the error of
\* the Profile Store reaches the caller, after the question was changed in
\* memory and before the session is saved.
submit_answer_step_unguarded(session_id, question_index, user_answer) ==
    IF session_id \notin DOMAIN sessions
    THEN Step("not_found", <<>>, profiles, disk_profiles, sessions, disk_sessions)
    ELSE LET session == sessions[session_id]
             n == Len(session.questions)
             i == list_position(question_index, n)
         IN  IF index_out_of_range(question_index, n)
             THEN Step("out_of_range", <<>>, profiles, disk_profiles, sessions, disk_sessions)
             ELSE IF i \notin 1..n
             THEN Step("IndexError", <<>>, profiles, disk_profiles, sessions, disk_sessions)
             ELSE LET question == [session.questions[i] EXCEPT
                                      !.user_answer = Some(user_answer),
                                      !.timestamp = Some(now),
                                      !.is_correct =
                                          Some(user_answer = session.questions[i].correct_answer)]
                      updated == [session EXCEPT !.questions[i] = question]
                      forward == record_attempt_step(session.learner_id,
                                                     attempt_of(question, session_id))
                  IN  IF forward.outcome # "ok"
                      THEN Step(forward.outcome, <<>>, profiles, disk_profiles,
                                [sessions EXCEPT ![session_id] = updated], disk_sessions)
                      ELSE Step("ok",
                                <<[is_correct |-> question.is_correct[1],
                                   correct_answer |-> question.correct_answer]>>,
                                forward.profiles, forward.disk_profiles,
                                [sessions EXCEPT ![session_id] = updated],
                                _save_session(disk_sessions, updated))

\* submit_answer that turns away a question which already has an answer
\* (and is the variant above for a first answer).
submit_answer_step_once(session_id, question_index, user_answer) ==
    IF /\ session_id \in DOMAIN sessions
       /\ ~index_out_of_range(question_index, Len(sessions[session_id].questions))
       /\ list_position(question_index, Len(sessions[session_id].questions))
              \in 1..Len(sessions[session_id].questions)
       /\ sessions[session_id].questions[
              list_position(question_index, Len(sessions[session_id].questions))].user_answer # None
    THEN Step("already_answered", <<>>, profiles, disk_profiles, sessions, disk_sessions)
    ELSE submit_answer_step_unguarded(session_id, question_index, user_answer)

submit_answer_step(session_id, question_index, user_answer) ==
    IF session_id \notin DOMAIN sessions
    THEN Step("not_found", <<>>, profiles, disk_profiles, sessions, disk_sessions)
    ELSE LET session == sessions[session_id]
             n == Len(session.questions)
             i == list_position(question_index, n)
         IN  IF index_out_of_range(question_index, n)
             THEN Step("out_of_range", <<>>, profiles, disk_profiles, sessions, disk_sessions)
             ELSE IF i \notin 1..n
             THEN Step("IndexError", <<>>, profiles, disk_profiles, sessions, disk_sessions)
             ELSE LET question == [session.questions[i] EXCEPT
                                      !.user_answer = Some(user_answer),
                                      !.timestamp = Some(now),
                                      !.is_correct =
                                          Some(user_answer = session.questions[i].correct_answer)]
                      updated == [session EXCEPT !.questions[i] = question]
                      \* try: record_attempt(...) except Exception: print(...)
                      forward == record_attempt_step(session.learner_id,
                                                     attempt_of(question, session_id))
                  IN  Step("ok",
                           <<[is_correct |-> question.is_correct[1],
                              correct_answer |-> question.correct_answer]>>,
                           forward.profiles, forward.disk_profiles,
                           [sessions EXCEPT ![session_id] = updated],
                           _save_session(disk_sessions, updated))

\* sum(1 for q in session.questions if q.is_correct is not None): the score
\* would count every answered question.
answered_count(questions) ==
    Cardinality({i \in 1..Len(questions) : questions[i].is_correct # None})

\* sum(1 for q in session.questions if q.is_correct)
correct_count(questions) ==
    Cardinality({i \in 1..Len(questions) : questions[i].is_correct = Some(TRUE)})

\* (correct / total * 100) if total > 0 else 0
score_of(correct, total) == IF total > 0 THEN Frac(correct * 100, total) ELSE Frac(0, 1)

complete_session_step(session_id) ==
    IF session_id \notin DOMAIN sessions
    THEN Step("not_found", <<>>, profiles, disk_profiles, sessions, disk_sessions)
    ELSE LET session == sessions[session_id]
             total == Len(session.questions)
             correct == correct_count(session.questions)
             updated == [session EXCEPT !.end_time = Some(now),
                                        !.status = "completed",
                                        !.score = Some(score_of(correct, total))]
             \* try: record_exam_completion(...) except Exception: print(...)
             forward == record_exam_completion_step(
                            session.learner_id,
                            ExamRecord(session_id, total, correct, updated.score[1]))
         IN  Step("ok",
                  <<[score |-> updated.score[1], correct |-> correct, total |-> total]>>,
                  forward.profiles, forward.disk_profiles,
                  [sessions EXCEPT ![session_id] = updated],
                  _save_session(disk_sessions, updated))

create_session(learner_id) ==
    /\ Install(create_session_step(learner_id))
    /\ UNCHANGED <<now, snapshot, milestone, pending, running>>

add_question_to_session(session_id, question_id, topic, difficulty, skill_ids, correct_answer) ==
    /\ Install(add_question_to_session_step(session_id, question_id, topic, difficulty,
                                            skill_ids, correct_answer))
    /\ UNCHANGED <<now, snapshot, milestone, pending, running>>

submit_answer(session_id, question_index, user_answer) ==
    /\ Install(submit_answer_step(session_id, question_index, user_answer))
    /\ UNCHANGED <<now, snapshot, milestone, pending, running>>

complete_session(session_id) ==
    /\ Install(complete_session_step(session_id))
    /\ UNCHANGED <<now, snapshot, milestone, pending, running>>

(***************************************************************************)
(* submit_answer statement by statement, as a reader of the files or       *)
(* another request's thread sees it.                                       *)
(***************************************************************************)
SubmitCall(session_id, position, pc) ==
    [session_id |-> session_id, position |-> position, pc |-> pc]

\* The lookup, the range test and the writes to the question in memory.
submit_answer_begin(t, session_id, question_index, user_answer) ==
    /\ running[t] = None
    /\ session_id \in DOMAIN sessions
    /\ ~index_out_of_range(question_index, Len(sessions[session_id].questions))
    /\ LET n == Len(sessions[session_id].questions)
           i == list_position(question_index, n)
       IN  /\ i \in 1..n
           /\ sessions' = [sessions EXCEPT ![session_id].questions[i] =
                              [sessions[session_id].questions[i] EXCEPT
                                  !.user_answer = Some(user_answer),
                                  !.timestamp = Some(now),
                                  !.is_correct = Some(user_answer =
                                      sessions[session_id].questions[i].correct_answer)]]
           /\ running' = [running EXCEPT ![t] = Some(SubmitCall(session_id, i, "forward"))]
    /\ UNCHANGED <<profiles, disk_profiles, disk_sessions, now, snapshot, milestone, pending>>

\* try: self.learner_manager.record_attempt(...) except Exception: print(...)
submit_answer_forward(t) ==
    /\ running[t] # None
    /\ running[t][1].pc = "forward"
    /\ LET call == running[t][1]
           session == sessions[call.session_id]
           forward == record_attempt_step(session.learner_id,
                          attempt_of(session.questions[call.position], call.session_id))
       IN  /\ profiles' = forward.profiles
           /\ disk_profiles' = forward.disk_profiles
           /\ running' = [running EXCEPT ![t] = Some([call EXCEPT !.pc = "save"])]
    /\ UNCHANGED <<sessions, disk_sessions, now, snapshot, milestone, pending>>

\* self._save_session(session) and return.
submit_answer_save(t) ==
    /\ running[t] # None
    /\ running[t][1].pc = "save"
    /\ disk_sessions' = _save_session(disk_sessions, sessions[running[t][1].session_id])
    /\ running' = [running EXCEPT ![t] = None]
    /\ UNCHANGED <<profiles, disk_profiles, sessions, now, snapshot, milestone, pending>>

\* [q for q in session.questions if q.is_correct is not None]
answered(questions) == SelectSeq(questions, LAMBDA q : q.is_correct # None)

\* [:3] where the code slices [-3:] : the first three answered questions.
first_three(s) == IF Len(s) <= 3 THEN s ELSE SubSeq(s, 1, 3)

\* [-3:]
last_three(s) == IF Len(s) <= 3 THEN s ELSE SubSeq(s, Len(s) - 2, Len(s))

\* get_adaptive_next_difficulty stepping down only when none of the examined
\* answers is correct, and holding the difficulty on exactly one.
adaptive_next_difficulty_lenient(session_id) ==
    IF session_id \notin DOMAIN sessions \/ Len(sessions[session_id].questions) < 3
    THEN "intermediate"
    ELSE LET recent == last_three(answered(sessions[session_id].questions))
         IN  IF recent = <<>> THEN "intermediate"
             ELSE LET correct == correct_count(recent)
                      current_diff == recent[Len(recent)].difficulty
                  IN  IF correct >= 2
                      THEN (IF current_diff = "beginner" THEN "intermediate"
                            ELSE IF current_diff = "intermediate" THEN "advanced"
                            ELSE "advanced")
                      ELSE IF correct < 1
                      THEN (IF current_diff = "advanced" THEN "intermediate"
                            ELSE IF current_diff = "intermediate" THEN "beginner"
                            ELSE "beginner")
                      ELSE current_diff

get_adaptive_next_difficulty(session_id) ==
    IF session_id \notin DOMAIN sessions \/ Len(sessions[session_id].questions) < 3
    THEN "intermediate"
    ELSE LET recent == last_three(answered(sessions[session_id].questions))
         IN  IF recent = <<>> THEN "intermediate"
             ELSE LET correct == correct_count(recent)
                      current_diff == recent[Len(recent)].difficulty
                  IN  IF correct >= 2
                      THEN (IF current_diff = "beginner" THEN "intermediate"
                            ELSE IF current_diff = "intermediate" THEN "advanced"
                            ELSE "advanced")
                      ELSE IF correct <= 1
                      THEN (IF current_diff = "advanced" THEN "intermediate"
                            ELSE IF current_diff = "intermediate" THEN "beginner"
                            ELSE "beginner")
                      ELSE current_diff

(***************************************************************************)
(* get_session_summary.  A breakdown is tallied over occurrences <<i, k>>: *)
(* question i, and for the skill breakdown position k of its skill list.   *)
(***************************************************************************)
\* perf["total"] += 1 whatever the answer.  Here only answered questions add
\* to the total.
tally_answered_only(questions, occurrences) ==
    [correct |-> Cardinality({x \in occurrences : questions[x[1]].is_correct = Some(TRUE)}),
     total |-> Cardinality({x \in occurrences : questions[x[1]].is_correct # None})]

\* perf["total"] += 1; if question.is_correct: perf["correct"] += 1
tally(questions, occurrences) ==
    [correct |-> Cardinality({x \in occurrences : questions[x[1]].is_correct = Some(TRUE)}),
     total |-> Cardinality(occurrences)]

\* question.skill_ids if question.skill_ids else [f"topic_{...}"]
summary_skill_ids(question) ==
    IF question.skill_ids # <<>> THEN question.skill_ids
    ELSE <<topic_skill_id(question.topic)>>

get_session_summary_step(session_id) ==
    IF session_id \notin DOMAIN sessions
    THEN Step("not_found", <<>>, profiles, disk_profiles, sessions, disk_sessions)
    ELSE LET session == sessions[session_id]
             qs == session.questions
             skill_occurrences ==
                 {x \in (1..Len(qs)) \X (1..3) : x[2] <= Len(summary_skill_ids(qs[x[1]]))}
             skills == {summary_skill_ids(qs[x[1]])[x[2]] : x \in skill_occurrences}
             topics == {qs[i].topic : i \in 1..Len(qs)}
         IN  Step("ok",
                  <<[session_id |-> session_id,
                     score |-> session.score,
                     difficulty_performance |->
                         [d \in {"beginner", "intermediate", "advanced"} |->
                             tally(qs, {<<i, 0>> : i \in {j \in 1..Len(qs) : qs[j].difficulty = d}})],
                     skill_performance |->
                         [sk \in skills |->
                             tally(qs, {x \in skill_occurrences :
                                           summary_skill_ids(qs[x[1]])[x[2]] = sk})],
                     topic_performance |->
                         [t \in topics |->
                             tally(qs, {<<i, 0>> : i \in {j \in 1..Len(qs) : qs[j].topic = t}})]]>>,
                  profiles, disk_profiles, sessions, disk_sessions)

\* One second passes.
Tick ==
    /\ now < MaxClock
    /\ now' = now + 1
    /\ UNCHANGED <<profiles, disk_profiles, sessions, disk_sessions, snapshot, milestone, pending, running>>

(***************************************************************************)
(* Recommendation Engine: the milestone ladder.                            *)
(***************************************************************************)
\* round(correct / total * 100, 1) in tenths of a percent, 0 when total = 0.
\* round() rounds half to even; on an exact tie the float product decides,
\* which for totals up to 120 happens only at total = 80 (23, 49 and 51
\* correct), one tenth away and far from every threshold of the ladder.
round_tenths(correct, total) ==
    IF total = 0 THEN 0
    ELSE LET q == (1000 * correct) \div total
             r == (1000 * correct) % total
         IN  IF 2 * r > total THEN q + 1
             ELSE IF 2 * r < total THEN q
             ELSE IF q % 2 = 0 THEN q ELSE q + 1

\* The counters of get_all_performance_data that get_next_milestone reads.
performance_data(total, correct, topics, exams) ==
    [total_questions |-> total, correct_questions |-> correct,
     overall_accuracy |-> round_tenths(correct, total),
     topics_practiced |-> topics, exams_completed |-> exams]

get_all_performance_data(profile) ==
    performance_data(
        Len(profile.attempts),
        Cardinality({i \in 1..Len(profile.attempts) : profile.attempts[i].correct}),
        Len(profile.topic_performance),
        Len(profile.exam_history))

milestone_names == <<"Beginner", "Explorer", "Committed", "Proficient", "Expert", "Master">>

\* The ladder with the Explorer and Committed rungs in each other's place.
milestone_check_swapped(i, pd) ==
    CASE i = 1 -> pd.total_questions >= 5
      [] i = 2 -> pd.exams_completed >= 3
      [] i = 3 -> pd.topics_practiced >= 3
      [] i = 4 -> pd.total_questions >= 25 /\ pd.overall_accuracy >= 700
      [] i = 5 -> pd.total_questions >= 50 /\ pd.overall_accuracy >= 850
      [] i = 6 -> pd.total_questions >= 100 /\ pd.overall_accuracy >= 900

\* The ladder with the Beginner rung asking for 70 % accuracy as well.
milestone_check_accuracy_first(i, pd) ==
    CASE i = 1 -> pd.total_questions >= 5 /\ pd.overall_accuracy >= 700
      [] i = 2 -> pd.topics_practiced >= 3
      [] i = 3 -> pd.exams_completed >= 3
      [] i = 4 -> pd.total_questions >= 25 /\ pd.overall_accuracy >= 700
      [] i = 5 -> pd.total_questions >= 50 /\ pd.overall_accuracy >= 850
      [] i = 6 -> pd.total_questions >= 100 /\ pd.overall_accuracy >= 900

\* milestones[i]["check"]()
milestone_check(i, pd) ==
    CASE i = 1 -> pd.total_questions >= 5
      [] i = 2 -> pd.topics_practiced >= 3
      [] i = 3 -> pd.exams_completed >= 3
      [] i = 4 -> pd.total_questions >= 25 /\ pd.overall_accuracy >= 700
      [] i = 5 -> pd.total_questions >= 50 /\ pd.overall_accuracy >= 850
      [] i = 6 -> pd.total_questions >= 100 /\ pd.overall_accuracy >= 900

Milestone(current, next, progress) ==
    [current |-> current, next |-> next, progress |-> progress]

\* The for loop of get_next_milestone from rung i on, with current_milestone.
RECURSIVE milestone_walk(_, _, _)
milestone_walk(i, current, pd) ==
    IF i > Len(milestone_names) THEN Milestone(current, "Master", "Complete")
    ELSE IF milestone_check(i, pd)
         THEN milestone_walk(i + 1, milestone_names[i], pd)
         ELSE Milestone(current, milestone_names[i], "partial")

get_next_milestone(learner_id) ==
    IF learner_id \notin DOMAIN profiles THEN Milestone("Novice", "Beginner", "0/3")
    ELSE milestone_walk(1, "Novice", get_all_performance_data(profiles[learner_id]))

\* get_next_milestone on the snapshot.
walk_snapshot ==
    /\ milestone = None
    /\ milestone' = Some(milestone_walk(1, "Novice", snapshot))
    /\ UNCHANGED <<profiles, disk_profiles, sessions, disk_sessions, now, snapshot, pending, running>>

\* The entry get_weak_skills builds from a gap (threshold 0.7; the display
\* name and category come from the ontology and are left out).
weak_skill_entry(gap) ==
    [skill_id |-> gap.skill_id, accuracy |-> gap.accuracy, attempts |-> gap.attempts]

below_threshold(e) == frac_lt(e.accuracy, 7, 10)

get_weak_skills(learner_id) ==
    LET weak == SelectSeq(get_skill_gaps(learner_id), below_threshold)
    IN  first_n(sort_ascending([i \in 1..Len(weak) |-> weak_skill_entry(weak[i])]), 5)

weak_topic_entry(t) ==
    [topic |-> t.topic, accuracy |-> t.accuracy, attempts |-> t.attempts,
     correct |-> t.correct,
     priority |-> IF frac_lt(t.accuracy, 1, 2) THEN "high" ELSE "medium"]

get_weak_topics(learner_id) ==
    LET weak == SelectSeq(get_topic_weaknesses(learner_id), below_threshold)
    IN  first_n(sort_ascending([i \in 1..Len(weak) |-> weak_topic_entry(weak[i])]), 5)

\* max(2, num_questions // max(total_weak, 1))
questions_per_area(num_questions, weak_topics, weak_skills) ==
    LET total_weak == Len(weak_topics) + Len(weak_skills)
        quotient == num_questions \div (IF total_weak >= 1 THEN total_weak ELSE 1)
    IN  IF quotient >= 2 THEN quotient ELSE 2

\* The plan, each distribution as the list of its entries in insertion order
\* (the message and the accuracy labels are left out).
generate_focused_exam(learner_id, num_questions) ==
    LET weak_skills == get_weak_skills(learner_id)
        weak_topics == get_weak_topics(learner_id)
        per_area == questions_per_area(num_questions, weak_topics, weak_skills)
        topics == first_n(weak_topics, 3)
        skills == first_n(weak_skills, 2)
    IN  IF weak_skills = <<>> /\ weak_topics = <<>>
        THEN [focus |-> "comprehensive_review", skill_distribution |-> <<>>,
              topic_distribution |-> <<>>]
        ELSE [focus |-> "gap_remediation",
              skill_distribution |->
                  [i \in 1..Len(skills) |->
                      [skill_id |-> skills[i].skill_id, num_questions |-> per_area]],
              topic_distribution |->
                  [i \in 1..Len(topics) |->
                      [topic |-> topics[i].topic, num_questions |-> per_area]]]

\* The counters get_all_performance_data reads, after record_attempt has
\* appended one attempt (and opened a topic entry when its topic is new).
snapshot_record_attempt(correct, new_topic) ==
    /\ snapshot' = performance_data(
                        snapshot.total_questions + 1,
                        snapshot.correct_questions + (IF correct THEN 1 ELSE 0),
                        snapshot.topics_practiced + (IF new_topic THEN 1 ELSE 0),
                        snapshot.exams_completed)
    /\ milestone' = Some(milestone_walk(1, "Novice", snapshot'))
    /\ UNCHANGED <<profiles, disk_profiles, sessions, disk_sessions, now, pending, running>>

\* The same counters after record_exam_completion has appended one record.
snapshot_record_exam_completion ==
    /\ snapshot' = performance_data(
                        snapshot.total_questions, snapshot.correct_questions,
                        snapshot.topics_practiced, snapshot.exams_completed + 1)
    /\ milestone' = Some(milestone_walk(1, "Novice", snapshot'))
    /\ UNCHANGED <<profiles, disk_profiles, sessions, disk_sessions, now, pending, running>>

\* The request threads of the server's pool that take part.
Threads == {"t1", "t2"}

(***************************************************************************)
(* Initial state: both managers constructed over empty data directories.   *)
(***************************************************************************)
Init ==
    /\ profiles = <<>>
    /\ disk_profiles = <<>>
    /\ sessions = <<>>
    /\ disk_sessions = <<>>
    /\ now = 0
    /\ snapshot = performance_data(0, 0, 0, 0)
    /\ milestone = None
    /\ pending = None
    /\ running = [t \in Threads |-> None]

\* The bounds of a specification, on the tables a step leaves behind.
InBounds(max_attempts, max_questions) ==
    /\ \A l \in DOMAIN profiles :
          /\ Len(profiles[l].attempts) <= max_attempts
          /\ Len(profiles[l].exam_history) <= MaxExams
    /\ Cardinality(DOMAIN sessions) <= MaxSessions
    /\ \A sid \in DOMAIN sessions : Len(sessions[sid].questions) <= max_questions

Learners == {"l1"}
SessionIds == {session_id_of(l, t) : l \in Learners, t \in 0..MaxClock}
Answers == {"A", "B"}
Difficulties == {"beginner", "intermediate", "advanced", "expert"}

(***************************************************************************)
(* Spec: both managers, driven through every mutating operation.           *)
(***************************************************************************)
Next ==
    /\ \/ \E l \in Learners : create_profile(l, "n1", "r1")
       \/ \E l \in Learners, ids \in {<<>>, <<SkillA>>}, c \in BOOLEAN :
             record_attempt(l, QuestionAttempt(ids, TopicA, c, None))
       \/ \E l \in Learners : create_session(l)
       \/ \E sid \in SessionIds, ids \in {<<>>, <<SkillA>>} :
             add_question_to_session(sid, "q", TopicA, "intermediate", ids, "A")
       \/ \E sid \in SessionIds, i \in -(MaxQuestions + 1)..MaxQuestions, a \in Answers :
             submit_answer(sid, i, a)
       \/ \E sid \in SessionIds : complete_session(sid)
       \/ Tick
    /\ InBounds(MaxAttempts, MaxQuestions)'

Spec == Init /\ [][Next]_vars

(***************************************************************************)
(* SpecSession: one session of a learner who has no profile, with          *)
(* questions of every difficulty.                                          *)
(***************************************************************************)
NextSession ==
    /\ \/ \E l \in Learners : create_session(l)
       \/ \E sid \in SessionIds, d \in Difficulties :
             add_question_to_session(sid, "q", TopicA, d, <<SkillA>>, "A")
       \/ \E sid \in SessionIds, i \in 0..MaxSessQuestions, a \in Answers :
             submit_answer(sid, i, a)
    /\ InBounds(0, MaxSessQuestions)'

SpecSession == Init /\ [][NextSession]_vars

(***************************************************************************)
(* SpecProfile: the Profile Store alone, attempts recorded directly        *)
(* (POST /api/learner/{id}/attempt hands the caller's skill_ids list over  *)
(* as it is: it may be empty and may repeat an id).                        *)
(***************************************************************************)
ProfSkillLists == {<<>>, <<SkillA>>, <<SkillB>>, <<SkillA, SkillB>>, <<SkillA, SkillA>>}

NextProfile ==
    /\ \/ \E l \in Learners : create_profile(l, "n1", "r1")
       \/ \E l \in Learners, ids \in ProfSkillLists, c \in BOOLEAN :
             record_attempt(l, QuestionAttempt(ids, TopicA, c, None))
    /\ InBounds(MaxProfAttempts, 0)'

SpecProfile == Init /\ [][NextProfile]_vars

(***************************************************************************)
(* SpecTier: one skill practised up to MaxTierAttempts times.              *)
(***************************************************************************)
NextTier ==
    /\ \/ \E l \in Learners : create_profile(l, "n1", "r1")
       \/ \E l \in Learners, c \in BOOLEAN :
             record_attempt(l, QuestionAttempt(<<SkillA>>, TopicA, c, None))
    /\ InBounds(MaxTierAttempts, 0)'

SpecTier == Init /\ [][NextTier]_vars

(***************************************************************************)
(* SpecMilestone: the milestone walk on every snapshot of counters a       *)
(* profile can show (at most one new topic per attempt).                   *)
(***************************************************************************)
InitMilestone ==
    /\ profiles = <<>>
    /\ disk_profiles = <<>>
    /\ sessions = <<>>
    /\ disk_sessions = <<>>
    /\ now = 0
    /\ \E total \in 0..MaxMQuestions, topics \in 0..MaxMTopics, exams \in 0..MaxMExams :
          /\ topics <= total
          /\ \E correct \in 0..total :
                snapshot = performance_data(total, correct, topics, exams)
    /\ milestone = None
    /\ pending = None
    /\ running = [t \in Threads |-> None]

NextMilestone == walk_snapshot

SpecMilestone == InitMilestone /\ [][NextMilestone]_vars

(***************************************************************************)
(* SpecClimb: the counters of one learner growing attempt by attempt and   *)
(* exam by exam, the milestone reported after every step.                  *)
(***************************************************************************)
ClimbBounds ==
    /\ snapshot.total_questions <= MaxClimbQuestions
    /\ snapshot.topics_practiced <= MaxClimbTopics
    /\ snapshot.exams_completed <= MaxClimbExams

NextClimb ==
    /\ \/ \E c \in BOOLEAN, t \in BOOLEAN : snapshot_record_attempt(c, t)
       \/ snapshot_record_exam_completion
    /\ ClimbBounds'

SpecClimb == Init /\ [][NextClimb]_vars

(***************************************************************************)
(* SpecRace: two requests on POST /api/learner/{id}/attempt for the same   *)
(* learner, each on its own thread.                                        *)
(***************************************************************************)
NextRace ==
    /\ \/ \E l \in Learners : create_profile(l, "n1", "r1")
       \/ \E t \in Threads, l \in Learners, c \in BOOLEAN :
             race_append(t, l, QuestionAttempt(<<SkillA>>, TopicA, c, None))
       \/ \E t \in Threads : race_load(t)
       \/ \E t \in Threads : race_store(t)
       \/ \E t \in Threads : race_topic(t)
       \/ \E t \in Threads : race_save(t)
    /\ InBounds(MaxRaceAttempts, 0)'

SpecRace == Init /\ [][NextRace]_vars

(***************************************************************************)
(* SpecSubmit: one session, its answers submitted statement by statement   *)
(* (the session is created while no submission is under way: a running     *)
(* call keeps the session object it looked up).                            *)
(***************************************************************************)
NextSubmit ==
    /\ \/ \E l \in Learners : create_profile(l, "n1", "r1")
       \/ \E l \in Learners : (\A t \in Threads : running[t] = None) /\ create_session(l)
       \/ \E sid \in DOMAIN sessions :
             add_question_to_session(sid, "q", TopicA, "intermediate", <<SkillA>>, "A")
       \/ \E t \in Threads, sid \in DOMAIN sessions, i \in 0..(MaxSubmitQuestions - 1), a \in Answers :
             submit_answer_begin(t, sid, i, a)
       \/ \E t \in Threads : submit_answer_forward(t)
       \/ \E t \in Threads : submit_answer_save(t)
    /\ InBounds(MaxSubmitAttempts, MaxSubmitQuestions)'

SpecSubmit == Init /\ [][NextSubmit]_vars

(***************************************************************************)
(* SpecPlan: a learner whose attempts carry one or three skills and one of *)
(* two topics, as get_weak_skills, get_weak_topics and                     *)
(* generate_focused_exam find the profile.                                 *)
(***************************************************************************)
PlanSkillLists == {<<SkillA>>, <<SkillA, SkillB, SkillC>>}

NextPlan ==
    /\ \/ \E l \in Learners : create_profile(l, "n1", "r1")
       \/ \E l \in Learners, ids \in PlanSkillLists, topic \in {TopicA, TopicC}, c \in BOOLEAN :
             record_attempt(l, QuestionAttempt(ids, topic, c, None))
    /\ InBounds(MaxPlanAttempts, 0)'

SpecPlan == Init /\ [][NextPlan]_vars

(***************************************************************************)
(* SpecTopic: attempts whose topic strings differ in case and in blanks,   *)
(* or are empty or blank.                                                  *)
(***************************************************************************)
TopicStrings == {TopicA, TopicB, TopicC, NoTopic, BlankTopic}

NextTopic ==
    /\ \/ \E l \in Learners : create_profile(l, "n1", "r1")
       \/ \E l \in Learners, topic \in TopicStrings, c \in BOOLEAN :
             record_attempt(l, QuestionAttempt(<<SkillA>>, topic, c, None))
    /\ InBounds(MaxTopicAttempts, 0)'

SpecTopic == Init /\ [][NextTopic]_vars

(***************************************************************************)
(* SpecAdaptive: one session with up to MaxAdaptiveQuestions questions of  *)
(* any difficulty string, answered in any order.                           *)
(***************************************************************************)
NextAdaptive ==
    /\ \/ \E l \in Learners : create_session(l)
       \/ \E sid \in DOMAIN sessions, d \in Difficulties :
             add_question_to_session(sid, "q", TopicA, d, <<SkillA>>, "A")
       \/ \E sid \in DOMAIN sessions, i \in 0..(MaxAdaptiveQuestions - 1), a \in Answers :
             submit_answer(sid, i, a)
    /\ InBounds(0, MaxAdaptiveQuestions)'

SpecAdaptive == Init /\ [][NextAdaptive]_vars

(***************************************************************************)
(* SpecSummary: one session whose questions differ in topic, difficulty    *)
(* string and skill list, as get_session_summary finds it.                 *)
(***************************************************************************)
NextSummary ==
    /\ \/ \E l \in Learners : create_session(l)
       \/ \E sid \in DOMAIN sessions, topic \in {TopicA, TopicC}, d \in Difficulties,
                ids \in {<<SkillA>>, <<SkillA, SkillB>>} :
             add_question_to_session(sid, "q", topic, d, ids, "A")
       \/ \E sid \in DOMAIN sessions, i \in 0..(MaxSummaryQuestions - 1), a \in Answers :
             submit_answer(sid, i, a)
    /\ InBounds(0, MaxSummaryQuestions)'

SpecSummary == Init /\ [][NextSummary]_vars

(***************************************************************************)
(* SpecScore: one session of a learner, with or without a profile, taken   *)
(* to completion within one clock second.                                  *)
(***************************************************************************)
NextScore ==
    /\ \/ \E l \in Learners : create_profile(l, "n1", "r1")
       \/ \E l \in Learners : create_session(l)
       \/ \E sid \in SessionIds :
             add_question_to_session(sid, "q", TopicA, "intermediate", <<SkillA>>, "A")
       \/ \E sid \in SessionIds, i \in 0..MaxQuestions, a \in Answers :
             submit_answer(sid, i, a)
       \/ \E sid \in SessionIds : complete_session(sid)
    /\ InBounds(MaxAttempts, MaxQuestions)'

SpecScore == Init /\ [][NextScore]_vars

(***************************************************************************)
(* SpecStore: the Profile Store with two learner ids, profiles created     *)
(* under different names and roles, attempts and exam records handed in    *)
(* for ids with and without a profile.                                     *)
(***************************************************************************)
StoreLearners == {"l1", "l2"}
Names == {"n1", "n2"}
Roles == {"r1", "r2"}

NextStore ==
    /\ \/ \E l \in StoreLearners, name \in Names, role \in Roles : create_profile(l, name, role)
       \/ \E l \in StoreLearners, c \in BOOLEAN :
             record_attempt(l, QuestionAttempt(<<SkillA>>, TopicA, c, None))
       \/ \E l \in StoreLearners :
             record_exam_completion(l, ExamRecord("e", 0, 0, Frac(0, 1)))
    /\ InBounds(MaxStoreAttempts, 0)'

SpecStore == Init /\ [][NextStore]_vars

(***************************************************************************)
(* SpecAtomic: record_attempt running statement by statement while other   *)
(* requests look at the profile.  The skill lists repeat no id and are not *)
(* empty.                                                                  *)
(***************************************************************************)
NextAtomic ==
    /\ \/ \E l \in Learners : create_profile(l, "n1", "r1")
       \/ \E l \in Learners, ids \in {<<SkillA>>, <<SkillA, SkillB>>}, c \in BOOLEAN :
             record_attempt_append(l, QuestionAttempt(ids, TopicA, c, None))
       \/ record_attempt_skill
       \/ record_attempt_topic
       \/ record_attempt_save
    /\ InBounds(MaxAtomicAttempts, 0)'

SpecAtomic == Init /\ [][NextAtomic]_vars

(***************************************************************************)
(* SpecOrder: one session whose questions are answered in any order, the   *)
(* clock moving between submissions.                                       *)
(***************************************************************************)
TickOrder ==
    /\ now < MaxOrderClock
    /\ now' = now + 1
    /\ UNCHANGED <<profiles, disk_profiles, sessions, disk_sessions, snapshot, milestone, pending, running>>

NextOrder ==
    /\ \/ \E l \in Learners : create_session(l)
       \/ \E sid \in DOMAIN sessions, d \in Difficulties :
             add_question_to_session(sid, "q", TopicA, d, <<SkillA>>, "A")
       \/ \E sid \in DOMAIN sessions, i \in 0..(MaxOrderQuestions - 1), a \in Answers :
             submit_answer(sid, i, a)
       \/ TickOrder
    /\ InBounds(0, MaxOrderQuestions)'

SpecOrder == Init /\ [][NextOrder]_vars

(***************************************************************************)
(* SpecFinalize: one session of at most one question, completed as often   *)
(* as the caller asks.                                                     *)
(***************************************************************************)
FinalizeBounds ==
    /\ \A l \in DOMAIN profiles :
          /\ Len(profiles[l].attempts) <= 1
          /\ Len(profiles[l].exam_history) <= MaxFinalize
    /\ Cardinality(DOMAIN sessions) <= MaxSessions
    /\ \A sid \in DOMAIN sessions : Len(sessions[sid].questions) <= 1

NextFinalize ==
    /\ \/ \E l \in Learners : create_profile(l, "n1", "r1")
       \/ \E l \in Learners : create_session(l)
       \/ \E sid \in DOMAIN sessions :
             add_question_to_session(sid, "q", TopicA, "intermediate", <<SkillA>>, "A")
       \/ \E sid \in DOMAIN sessions, a \in Answers : submit_answer(sid, 0, a)
       \/ \E sid \in DOMAIN sessions : complete_session(sid)
       \/ Tick
    /\ FinalizeBounds'

SpecFinalize == Init /\ [][NextFinalize]_vars

(***************************************************************************)
(* Claims.                                                                 *)
(***************************************************************************)
has_skill(attempt, s) == \E i \in 1..Len(attempt.skill_ids) : attempt.skill_ids[i] = s
tagged_with(profile, s) == {i \in 1..Len(profile.attempts) : has_skill(profile.attempts[i], s)}
tagged_correct(profile, s) == {i \in tagged_with(profile, s) : profile.attempts[i].correct}

\* C1: after N successful record_attempt calls whose attempts are tagged with
\* skill s, the SkillPerformance of s has total_attempts = N, correct_attempts =
\* the number of those attempts that were correct (at most N), and accuracy =
\* correct_attempts / N.  (The history holds exactly the successful calls.)
C1_CountersMatchCalls ==
    \A l \in DOMAIN profiles : \A s \in {SkillA, SkillB} :
        LET p == profiles[l]
            n == Cardinality(tagged_with(p, s))
            c == Cardinality(tagged_correct(p, s))
        IN  n >= 1 =>
              \E j \in 1..Len(p.skill_performance) :
                  LET e == p.skill_performance[j]
                  IN  /\ e.skill_id = s
                      /\ e.total_attempts = n
                      /\ e.correct_attempts = c
                      /\ e.correct_attempts <= e.total_attempts
                      /\ frac_eq(e.accuracy, Frac(c, n))
                      /\ frac_ge(e.accuracy, 0, 1) /\ frac_le(e.accuracy, Frac(1, 1))

\* The tier table of the specification, over the cumulative counters.
TierTable(c, n) ==
    IF n < 2 THEN "novice"
    ELSE IF n <= 3 THEN (IF 2 * c >= n THEN "beginner" ELSE "novice")
    ELSE IF n <= 7 THEN (IF 10 * c >= 8 * n THEN "advanced"
                         ELSE IF 10 * c >= 6 * n THEN "intermediate" ELSE "beginner")
    ELSE (IF 100 * c >= 85 * n THEN "expert"
          ELSE IF 100 * c >= 75 * n THEN "advanced"
          ELSE IF 10 * c >= 6 * n THEN "intermediate" ELSE "beginner")

\* C2: in every reachable profile the stored proficiency tier of each tracked
\* skill is the tier table applied to its current cumulative counters.
C2_TierMatchesTable ==
    \A l \in DOMAIN profiles : \A j \in 1..Len(profiles[l].skill_performance) :
        LET e == profiles[l].skill_performance[j]
        IN  e.proficiency_level = TierTable(e.correct_attempts, e.total_attempts)

\* 9 correct of 10 recorded attempts: expert.
C2_Witness ==
    \E l \in DOMAIN profiles : \E j \in 1..Len(profiles[l].skill_performance) :
        LET e == profiles[l].skill_performance[j]
        IN  e.total_attempts = 10 /\ e.correct_attempts = 9 /\ e.proficiency_level = "expert"

seq_ids(s) == {s[i].skill_id : i \in 1..Len(s)}
stored(l, id) ==
    CHOOSE e \in {profiles[l].skill_performance[j] : j \in 1..Len(profiles[l].skill_performance)} :
        e.skill_id = id

\* C7: get_skill_gaps returns only skills with accuracy < 0.7, get_strengths
\* only skills with accuracy >= 0.7; the two results are disjoint and together
\* are exactly the tracked skills, each of which has at least one attempt; gaps
\* ascend by accuracy and strengths descend.
C7_GapsAndStrengthsPartition ==
    \A l \in DOMAIN profiles :
        LET g == get_skill_gaps(l)
            s == get_strengths(l)
            tracked == seq_ids(profiles[l].skill_performance)
        IN  /\ \A i \in 1..Len(g) :
                  /\ g[i].skill_id \in tracked
                  /\ 10 * stored(l, g[i].skill_id).correct_attempts
                        < 7 * stored(l, g[i].skill_id).total_attempts
                  /\ frac_eq(g[i].accuracy, stored(l, g[i].skill_id).accuracy)
            /\ \A i \in 1..Len(s) :
                  /\ s[i].skill_id \in tracked
                  /\ 10 * stored(l, s[i].skill_id).correct_attempts
                        >= 7 * stored(l, s[i].skill_id).total_attempts
                  /\ frac_eq(s[i].accuracy, stored(l, s[i].skill_id).accuracy)
            /\ seq_ids(g) \cap seq_ids(s) = {}
            /\ seq_ids(g) \cup seq_ids(s) = tracked
            /\ Len(g) + Len(s) = Cardinality(tracked)
            /\ \A id \in tracked : stored(l, id).total_attempts >= 1
            /\ \A i \in 1..Len(g) - 1 : frac_le(g[i].accuracy, g[i + 1].accuracy)
            /\ \A i \in 1..Len(s) - 1 : frac_le(s[i + 1].accuracy, s[i].accuracy)

\* A profile whose two strengths differ in accuracy.
C7_Witness ==
    \E l \in DOMAIN profiles :
        /\ Len(get_strengths(l)) = 2
        /\ ~frac_eq(get_strengths(l)[1].accuracy, get_strengths(l)[2].accuracy)

answered_indices(qs) == {i \in 1..Len(qs) : qs[i].is_correct # None}
correct_indices(qs) == {i \in 1..Len(qs) : qs[i].is_correct = <<TRUE>>}

\* C3: while fewer than 3 questions of a session have been answered,
\* get_adaptive_next_difficulty returns intermediate, whatever was added and
\* however the answers went.
C3_FewAnsweredIsIntermediate ==
    \A sid \in DOMAIN sessions :
        Cardinality(answered_indices(sessions[sid].questions)) < 3
            => get_adaptive_next_difficulty(sid) = "intermediate"

Tiers == {"beginner", "intermediate", "advanced"}
TierAbove(d) == IF d = "beginner" THEN "intermediate" ELSE "advanced"
TierBelow(d) == IF d = "advanced" THEN "intermediate" ELSE "beginner"

\* The three answered questions that stand last in the session's list.
Examined(qs) ==
    {i \in answered_indices(qs) :
        Cardinality({j \in answered_indices(qs) : j > i}) < 3}
LastOf(S) == CHOOSE i \in S : \A j \in S : j <= i

\* C4: with at least 3 answered questions, the result is one tier above the
\* difficulty d of the last examined question when at least 2 of the 3
\* examined are correct, and one tier below d when at most 1 is, saturating at
\* advanced and at beginner.
C4_TwoOfThreeRule ==
    \A sid \in DOMAIN sessions :
        LET qs == sessions[sid].questions
            ex == Examined(qs)
        IN  Cardinality(answered_indices(qs)) >= 3 =>
              LET d == qs[LastOf(ex)].difficulty
                  k == Cardinality(ex \cap correct_indices(qs))
              IN  d \in Tiers =>
                    /\ k >= 2 => get_adaptive_next_difficulty(sid) = TierAbove(d)
                    /\ k <= 1 => get_adaptive_next_difficulty(sid) = TierBelow(d)

\* Four answered questions, the last three [correct, correct, incorrect]
\* ending at intermediate: advanced.
C4_Witness ==
    \E sid \in DOMAIN sessions :
        LET qs == sessions[sid].questions
        IN  /\ Len(qs) = 4
            /\ qs[1].is_correct = <<FALSE>>
            /\ qs[2].is_correct = <<TRUE>>
            /\ qs[3].is_correct = <<TRUE>>
            /\ qs[4].is_correct = <<FALSE>>
            /\ qs[4].difficulty = "intermediate"
            /\ get_adaptive_next_difficulty(sid) = "advanced"

C6_CompletedStaysCompleted ==
    [][/\ \A sid \in DOMAIN sessions :
             sessions[sid].status = "completed" =>
                 /\ sid \in DOMAIN sessions'
                 /\ sessions'[sid].status # "in_progress"
                 /\ disk_sessions'[sid].status # "in_progress"
       /\ \A sid \in DOMAIN sessions' \ DOMAIN sessions :
             sessions'[sid].status = "in_progress"]_vars

\* C8: every attempt in a profile's history has at least one skill id, and
\* each of its skill ids has a SkillPerformance entry (an attempt that came
\* without skill ids stands under topic_<slug>).
C8_EveryAttemptHasSkill ==
    \A l \in DOMAIN profiles : \A i \in 1..Len(profiles[l].attempts) :
        LET a == profiles[l].attempts[i]
        IN  /\ a.skill_ids # <<>>
            /\ \A k \in 1..Len(a.skill_ids) :
                  \E j \in 1..Len(profiles[l].skill_performance) :
                      /\ profiles[l].skill_performance[j].skill_id = a.skill_ids[k]
                      /\ profiles[l].skill_performance[j].total_attempts >= 1

Ladder == <<"Beginner", "Explorer", "Committed", "Proficient", "Expert", "Master">>

\* The gates with the accuracy correct/total itself.
TrueGate(i, s) ==
    CASE i = 1 -> s.total_questions >= 5
      [] i = 2 -> s.topics_practiced >= 3
      [] i = 3 -> s.exams_completed >= 3
      [] i = 4 -> s.total_questions >= 25 /\ 100 * s.correct_questions >= 70 * s.total_questions
      [] i = 5 -> s.total_questions >= 50 /\ 100 * s.correct_questions >= 85 * s.total_questions
      [] i = 6 -> s.total_questions >= 100 /\ 100 * s.correct_questions >= 90 * s.total_questions

\* The gates with the accuracy rounded to one decimal place: the rounded value
\* reaches 70.0 exactly when correct/total reaches 69.95 % (no total below 2000
\* puts correct/total on 69.95, 84.95 or 89.95 itself).
RoundedGate(i, s) ==
    CASE i = 1 -> s.total_questions >= 5
      [] i = 2 -> s.topics_practiced >= 3
      [] i = 3 -> s.exams_completed >= 3
      [] i = 4 -> s.total_questions >= 25 /\ 2000 * s.correct_questions >= 1399 * s.total_questions
      [] i = 5 -> s.total_questions >= 50 /\ 2000 * s.correct_questions >= 1699 * s.total_questions
      [] i = 6 -> s.total_questions >= 100 /\ 2000 * s.correct_questions >= 1799 * s.total_questions

FirstUnmet(Gate(_, _), s) ==
    IF \A i \in 1..6 : Gate(i, s) THEN 7
    ELSE CHOOSE i \in 1..6 : ~Gate(i, s) /\ \A j \in 1..(i - 1) : Gate(j, s)

LadderAnswer(m, k) ==
    /\ m.current = (IF k = 1 THEN "Novice" ELSE Ladder[k - 1])
    /\ m.next = (IF k = 7 THEN "Master" ELSE Ladder[k])
    /\ (m.progress = "Complete") <=> (k = 7)

\* C9 as stated: the walk stops at the first rung whose gate (5 questions,
\* 3 topics, 3 exams, 25 questions at 70 %, 50 at 85 %, 100 at 90 % accuracy)
\* is unmet; next is that rung, current the rung before it, Master/Complete
\* when all are met.
C9_LadderOnAccuracy ==
    milestone # None => LadderAnswer(milestone[1], FirstUnmet(TrueGate, snapshot))

\* C9 amended: the same walk, the accuracy gates reading the accuracy rounded
\* to one decimal place.
C9_LadderOnRoundedAccuracy ==
    milestone # None => LadderAnswer(milestone[1], FirstUnmet(RoundedGate, snapshot))

\* 28 questions at 75 %, 4 topics, 3 exams: current Proficient, next Expert.
C9_Witness ==
    /\ milestone # None
    /\ snapshot.total_questions = 28 /\ snapshot.correct_questions = 21
    /\ snapshot.topics_practiced = 4 /\ snapshot.exams_completed = 3
    /\ milestone[1].current = "Proficient" /\ milestone[1].next = "Expert"

Unchanged(r) ==
    /\ r.sessions = sessions /\ r.disk_sessions = disk_sessions
    /\ r.profiles = profiles /\ r.disk_profiles = disk_profiles

\* C10: submit_answer with an index that is no position of the question list
\* (index >= number of questions, or negative) fails with an out-of-range error
\* and changes nothing; with an unknown session id it fails with not-found and
\* changes nothing.
C10_BadIndexRejected ==
    \A sid \in SessionIds, i \in -(MaxQuestions + 1)..MaxQuestions, a \in Answers :
        LET r == submit_answer_step(sid, i, a)
        IN  IF sid \notin DOMAIN sessions
            THEN r.outcome = "not_found" /\ Unchanged(r)
            ELSE (i >= Len(sessions[sid].questions) \/ i < 0) =>
                     /\ r.outcome \in {"out_of_range", "IndexError"}
                     /\ Unchanged(r)

\* C11: once submit_answer has set a question's answer and correctness, no
\* later step changes that question's answer, correctness or submission
\* timestamp.
C11_AnswerWrittenOnce ==
    [][\A sid \in DOMAIN sessions \cap DOMAIN sessions' :
          \A i \in 1..Len(sessions[sid].questions) :
              (i <= Len(sessions'[sid].questions) /\ sessions[sid].questions[i].is_correct # None)
                  => /\ sessions'[sid].questions[i].user_answer = sessions[sid].questions[i].user_answer
                     /\ sessions'[sid].questions[i].is_correct = sessions[sid].questions[i].is_correct
                     /\ sessions'[sid].questions[i].timestamp = sessions[sid].questions[i].timestamp]_vars

records_of(l, sid) ==
    {k \in 1..Len(profiles[l].exam_history) : profiles[l].exam_history[k].exam_id = sid}

\* C12: a session is finalized at most once: while it stays completed its end
\* time and score do not change, and no exam history holds two ExamRecords
\* with its id.
C12_FinalizedOnce ==
    [][/\ \A sid \in DOMAIN sessions \cap DOMAIN sessions' :
             (sessions[sid].status = "completed" /\ sessions'[sid].status = "completed")
                 => /\ sessions'[sid].end_time = sessions[sid].end_time
                    /\ sessions'[sid].score = sessions[sid].score
       /\ \A l \in DOMAIN profiles : \A sid \in DOMAIN sessions :
             Cardinality(records_of(l, sid)) <= 1]_vars

\* C13: create_session allocates an id that no session held by the manager
\* has, and leaves every session already held as it is.
C13_FreshSessionId ==
    \A l \in Learners :
        LET r == create_session_step(l)
        IN  /\ r.value[1].session_id \notin DOMAIN sessions
            /\ \A sid \in DOMAIN sessions : r.sessions[sid] = sessions[sid]
            /\ \A sid \in DOMAIN disk_sessions : r.disk_sessions[sid] = disk_sessions[sid]

\* C14: when the session's learner has no profile, so that forwarding to the
\* Profile Store fails, submit_answer still returns the correctness and the
\* correct answer, the question holds the submitted answer and correctness and
\* the session is persisted; complete_session still returns its score, marks
\* the session completed and persists it.  The Profile Store is left as it is.
C14_ForwardFailureSwallowed ==
    \A sid \in DOMAIN sessions :
        sessions[sid].learner_id \notin DOMAIN profiles =>
            /\ \A i \in 0..(Len(sessions[sid].questions) - 1), a \in Answers :
                  LET r == submit_answer_step(sid, i, a)
                      q == sessions[sid].questions[i + 1]
                  IN  /\ r.outcome = "ok"
                      /\ r.value = <<[is_correct |-> (a = q.correct_answer),
                                      correct_answer |-> q.correct_answer]>>
                      /\ r.sessions[sid].questions[i + 1].user_answer = <<a>>
                      /\ r.sessions[sid].questions[i + 1].is_correct = <<a = q.correct_answer>>
                      /\ r.disk_sessions = (sid :> r.sessions[sid]) @@ disk_sessions
                      /\ r.profiles = profiles /\ r.disk_profiles = disk_profiles
            /\ LET r == complete_session_step(sid)
               IN  /\ r.outcome = "ok"
                   /\ r.value # <<>>
                   /\ r.sessions[sid].status = "completed"
                   /\ r.sessions[sid].score = <<r.value[1].score>>
                   /\ r.disk_sessions = (sid :> r.sessions[sid]) @@ disk_sessions
                   /\ r.profiles = profiles /\ r.disk_profiles = disk_profiles

\* A learner without a profile whose session holds a submitted answer and was
\* completed, on disk as in memory.
C14_Witness ==
    \E sid \in DOMAIN sessions :
        /\ sessions[sid].learner_id \notin DOMAIN profiles
        /\ sessions[sid].status = "completed"
        /\ sessions[sid].score # None
        /\ \E i \in 1..Len(sessions[sid].questions) :
              sessions[sid].questions[i].user_answer = <<"B">>
        /\ sid \in DOMAIN disk_sessions
        /\ disk_sessions[sid] = sessions[sid]

\* C15: record_attempt and record_exam_completion for a learner id that has
\* no profile fail with not-found and change nothing, in memory or on disk.
C15_UnknownLearnerRejected ==
    \A l \in StoreLearners \ DOMAIN profiles :
        /\ \A c \in BOOLEAN, ids \in {<<>>, <<SkillA>>} :
              LET r == record_attempt_step(l, QuestionAttempt(ids, TopicA, c, None))
              IN  r.outcome = "not_found" /\ Unchanged(r)
        /\ LET r == record_exam_completion_step(l, ExamRecord("e", 0, 0, Frac(0, 1)))
           IN  r.outcome = "not_found" /\ Unchanged(r)

\* l1 has a profile with an attempt and an exam record; l2 has none, in
\* memory or on disk, and its attempt is refused.
C15_Witness ==
    /\ "l1" \in DOMAIN profiles
    /\ Len(profiles["l1"].attempts) = 1
    /\ Len(profiles["l1"].exam_history) = 1
    /\ "l2" \notin DOMAIN profiles
    /\ "l2" \notin DOMAIN disk_profiles
    /\ record_attempt_step("l2", QuestionAttempt(<<SkillA>>, TopicA, TRUE, None)).outcome
           = "not_found"

\* C16: every operation that takes a learner id or a session id ends in
\* not-found when the id is unknown and never hands back a default result:
\* the mutating operations end in not-found, get_adaptive_next_difficulty for
\* an unknown session does not answer with a difficulty, and the profile
\* queries for an unknown learner do not answer with the empty list or with
\* the first rung of the ladder.
C16_UnknownIdSurfaced ==
    /\ \A sid \in SessionIds \ DOMAIN sessions :
          /\ add_question_to_session_step(sid, "q", TopicA, "intermediate", <<SkillA>>, "A").outcome
                 = "not_found"
          /\ submit_answer_step(sid, 0, "A").outcome = "not_found"
          /\ complete_session_step(sid).outcome = "not_found"
          /\ get_adaptive_next_difficulty(sid) \notin Difficulties
    /\ \A l \in StoreLearners \ DOMAIN profiles :
          /\ record_attempt_step(l, QuestionAttempt(<<SkillA>>, TopicA, TRUE, None)).outcome
                 = "not_found"
          /\ get_skill_gaps(l) # <<>>
          /\ get_strengths(l) # <<>>
          /\ get_next_milestone(l).current # "Novice"

\* C17: create_profile for an id that has a profile returns that profile as
\* it is, whatever name and role are passed, and writes nothing; for a new id
\* it creates, stores and persists a profile with that name and role, an
\* empty history and no aggregates, leaving the other profiles alone.
C17_CreateProfileIdempotent ==
    \A l \in StoreLearners, name \in Names, role \in Roles :
        LET r == create_profile_step(l, name, role)
        IN  /\ r.outcome = "ok"
            /\ IF l \in DOMAIN profiles
               THEN r.value = <<profiles[l]>> /\ Unchanged(r)
               ELSE /\ r.value[1] = [learner_id |-> l, name |-> name, role |-> role,
                                     attempts |-> <<>>, skill_performance |-> <<>>,
                                     topic_performance |-> <<>>, exam_history |-> <<>>]
                    /\ DOMAIN r.profiles = DOMAIN profiles \cup {l}
                    /\ r.profiles[l] = r.value[1]
                    /\ r.disk_profiles[l] = r.value[1]
                    /\ \A k \in DOMAIN profiles : r.profiles[k] = profiles[k]
                    /\ \A k \in DOMAIN disk_profiles : r.disk_profiles[k] = disk_profiles[k]
                    /\ r.sessions = sessions /\ r.disk_sessions = disk_sessions

\* l1 was created as n1/r1 and has history; create_profile("l1", "n2", "r2")
\* hands that profile back.
C17_Witness ==
    /\ "l1" \in DOMAIN profiles
    /\ profiles["l1"].name = "n1" /\ profiles["l1"].role = "r1"
    /\ Len(profiles["l1"].attempts) = 1
    /\ Len(profiles["l1"].exam_history) = 1
    /\ create_profile_step("l1", "n2", "r2").value = <<profiles["l1"]>>
    /\ create_profile_step("l1", "n2", "r2").profiles = profiles

skill_total(profile, s) ==
    IF \E j \in 1..Len(profile.skill_performance) : profile.skill_performance[j].skill_id = s
    THEN LET j == CHOOSE k \in 1..Len(profile.skill_performance) :
                      profile.skill_performance[k].skill_id = s
         IN  profile.skill_performance[j].total_attempts
    ELSE 0

RECURSIVE sum_totals(_)
sum_totals(entries) ==
    IF entries = <<>> THEN 0 ELSE Head(entries).total_attempts + sum_totals(Tail(entries))

\* C18: whoever looks at a profile, at any moment, finds the history and the
\* aggregates in step: each skill's total_attempts is the number of attempts
\* in the history tagged with it, and the topic totals add up to the number
\* of attempts (each attempt here has a topic).  So no attempt is in the
\* history with an aggregate of its own not yet updated, and no aggregate is
\* ahead of the history.
C18_AttemptAllOrNothing ==
    \A l \in DOMAIN profiles :
        /\ \A s \in {SkillA, SkillB} :
              skill_total(profiles[l], s) = Cardinality(tagged_with(profiles[l], s))
        /\ sum_totals(profiles[l].topic_performance) = Len(profiles[l].attempts)

LatestAnswered(qs) ==
    {i \in answered_indices(qs) :
        Cardinality({j \in answered_indices(qs) :
                        qs[j].timestamp[1] > qs[i].timestamp[1]}) < 3}
LatestOf(qs, S) == CHOOSE i \in S : \A j \in S : qs[j].timestamp[1] <= qs[i].timestamp[1]

\* C20: with at least 3 answered questions, submitted at different times in
\* whatever order, get_adaptive_next_difficulty decides on the three questions
\* submitted last and takes the current tier from the one submitted last of
\* all: one tier up when at least 2 of the three are correct, one tier down
\* otherwise.
C20_MostRecentlyAnswered ==
    \A sid \in DOMAIN sessions :
        LET qs == sessions[sid].questions
            ans == answered_indices(qs)
        IN  (/\ Cardinality(ans) >= 3
             /\ \A i, j \in ans : i # j => qs[i].timestamp # qs[j].timestamp) =>
                LET recent == LatestAnswered(qs)
                    d == qs[LatestOf(qs, recent)].difficulty
                    k == Cardinality(recent \cap correct_indices(qs))
                IN  d \in Tiers =>
                      /\ k >= 2 => get_adaptive_next_difficulty(sid) = TierAbove(d)
                      /\ k <= 1 => get_adaptive_next_difficulty(sid) = TierBelow(d)

\* The rung a report stands on: 0 for Novice (and before any report).
Rung(m) ==
    IF m = None THEN 0
    ELSE IF m[1].current = "Novice" THEN 0
    ELSE CHOOSE i \in 1..6 : Ladder[i] = m[1].current

Min(a, b) == IF a <= b THEN a ELSE b

\* C21 as stated: every milestone gate that is met stays met after one more
\* attempt or one more completed exam, and the reported current milestone
\* never moves to an earlier rung.
C21_GatesStayMet ==
    [][/\ \A i \in 1..6 : milestone_check(i, snapshot) => milestone_check(i, snapshot')
       /\ Rung(milestone') >= Rung(milestone)]_vars

\* C21 amended: the three gates on counts (5 questions, 3 topics, 3 exams)
\* stay met once met, so the reported current milestone never moves to a
\* rung earlier than the one it stands on when that is Committed or below,
\* and never below Committed afterwards; the three gates on accuracy can be
\* lost again.
C21_CountGatesStayMet ==
    [][/\ \A i \in 1..3 : milestone_check(i, snapshot) => milestone_check(i, snapshot')
       /\ Rung(milestone') >= Min(Rung(milestone), 3)]_vars

\* 18 correct of 26: one miss after 18 of 25 (72 %), reported as Committed.
C21_Witness ==
    /\ snapshot.total_questions = 26
    /\ snapshot.correct_questions = 18
    /\ milestone # None
    /\ milestone[1].current = "Committed"
    /\ milestone[1].next = "Proficient"

\* C22: once two record_attempt calls for the same learner, run on two
\* threads at once, have both returned, the history holds both attempts,
\* every skill and topic aggregate they touch has gained one total per
\* attempt and one correct per correct attempt (no update is lost), and the
\* persisted profile is the profile in memory.
C22_NoLostUpdate ==
    (\A t \in Threads : running[t] = None) =>
        \A l \in DOMAIN profiles :
            LET p == profiles[l]
                n == Cardinality(tagged_with(p, SkillA))
                c == Cardinality(tagged_correct(p, SkillA))
            IN  /\ \A j \in 1..Len(p.skill_performance) :
                      p.skill_performance[j].skill_id = SkillA =>
                          /\ p.skill_performance[j].total_attempts = n
                          /\ p.skill_performance[j].correct_attempts = c
                /\ \A j \in 1..Len(p.topic_performance) :
                      /\ p.topic_performance[j].total_attempts = Len(p.attempts)
                      /\ p.topic_performance[j].correct_attempts =
                            Cardinality({i \in 1..Len(p.attempts) : p.attempts[i].correct})
                /\ n >= 1 => Len(p.skill_performance) = 1
                /\ l \in DOMAIN disk_profiles /\ disk_profiles[l] = p

\* The attempts of a history that carry a session's id.
forwarded(profile, sid) ==
    {k \in 1..Len(profile.attempts) : profile.attempts[k].exam_session_id = Some(sid)}

topic_total(profile, topic) ==
    IF \E j \in 1..Len(profile.topic_performance) : profile.topic_performance[j].topic = topic
    THEN LET j == CHOOSE k \in 1..Len(profile.topic_performance) :
                      profile.topic_performance[k].topic = topic
         IN  profile.topic_performance[j].total_attempts
    ELSE 0

\* C23: submit_answer for a question that already has an answer is not turned
\* away: it succeeds, appends one more QuestionAttempt for that question to
\* the learner's history and counts it once more in the skill and topic
\* aggregates, while the session keeps one question with one answer, the
\* new one.  So two calls for one index can leave two attempts for one
\* question.
C23_SecondSubmitCounted ==
    \A sid \in DOMAIN sessions : \A i \in 1..Len(sessions[sid].questions) : \A a \in Answers :
        LET l == sessions[sid].learner_id
            q == sessions[sid].questions[i]
            r == submit_answer_step(sid, i - 1, a)
        IN  (q.user_answer # None /\ l \in DOMAIN profiles) =>
              /\ r.outcome = "ok"
              /\ Len(r.profiles[l].attempts) = Len(profiles[l].attempts) + 1
              /\ Cardinality(forwarded(r.profiles[l], sid))
                    = Cardinality(forwarded(profiles[l], sid)) + 1
              /\ \A k \in 1..Len(q.skill_ids) :
                    skill_total(r.profiles[l], q.skill_ids[k])
                        = skill_total(profiles[l], q.skill_ids[k]) + 1
              /\ topic_total(r.profiles[l], str_strip(str_lower(q.topic)))
                    = topic_total(profiles[l], str_strip(str_lower(q.topic))) + 1
              /\ Len(r.sessions[sid].questions) = Len(sessions[sid].questions)
              /\ r.sessions[sid].questions[i].user_answer = Some(a)

\* One question in the session, answered, and two attempts carrying the
\* session's id in the history, both counted under the question's skill.
C23_Witness ==
    \E sid \in DOMAIN sessions :
        LET l == sessions[sid].learner_id
        IN  /\ Len(sessions[sid].questions) = 1
            /\ sessions[sid].questions[1].user_answer # None
            /\ l \in DOMAIN profiles
            /\ Cardinality(forwarded(profiles[l], sid)) = 2
            /\ skill_total(profiles[l], SkillA) = 2
            /\ topic_total(profiles[l], str_strip(str_lower(TopicA))) = 2

\* C24: submit_answer persists the session with the new answer before it
\* forwards the attempt: at the step that puts an attempt carrying a session
\* id into a profile, the persisted record of that session already holds a
\* question answered with the attempt's correctness.
C24_SavedBeforeForwarded ==
    [][\A l \in DOMAIN profiles \cap DOMAIN profiles' :
          Len(profiles'[l].attempts) > Len(profiles[l].attempts) =>
              LET a == profiles'[l].attempts[Len(profiles'[l].attempts)]
              IN  a.exam_session_id # None =>
                    /\ a.exam_session_id[1] \in DOMAIN disk_sessions
                    /\ \E i \in 1..Len(disk_sessions[a.exam_session_id[1]].questions) :
                          LET q == disk_sessions[a.exam_session_id[1]].questions[i]
                          IN  /\ q.user_answer # None
                              /\ q.is_correct = Some(a.correct)]_vars

\* C25: the plan of generate_focused_exam holds at most 3 weak topics and at
\* most 2 weak skills, every area in it gets the same number of questions,
\* and that number is num_questions divided (integer division) by the number
\* of areas in the plan, raised to 2 when smaller; with no weak topic and no
\* weak skill the plan is the comprehensive review with both distributions
\* empty.
C25_EvenSplitOverIncluded ==
    \A l \in Learners : \A n \in 0..MaxPlanQuestions :
        LET plan == generate_focused_exam(l, n)
            td == plan.topic_distribution
            sd == plan.skill_distribution
            areas == Len(td) + Len(sd)
            share == IF areas >= 1 /\ n \div areas >= 2 THEN n \div areas ELSE 2
        IN  IF get_weak_skills(l) = <<>> /\ get_weak_topics(l) = <<>>
            THEN plan.focus = "comprehensive_review" /\ td = <<>> /\ sd = <<>>
            ELSE /\ plan.focus = "gap_remediation"
                 /\ Len(td) <= 3 /\ Len(sd) <= 2 /\ areas >= 1
                 /\ \A i \in 1..Len(td) : td[i].num_questions = share
                 /\ \A i \in 1..Len(sd) : sd[i].num_questions = share

normalized(topic) == str_strip(str_lower(topic))
on_topic(profile, key) == {i \in 1..Len(profile.attempts) : normalized(profile.attempts[i].topic) = key}
on_topic_correct(profile, key) == {i \in on_topic(profile, key) : profile.attempts[i].correct}

\* Every TopicPerformance entry is keyed by the lower-cased, trimmed topic of
\* some attempt, no key twice, and its total_attempts and correct_attempts
\* are the counts of the attempts of the history with that normalised topic.
KeyedByNormalizedTopic(p) ==
    /\ \A j \in 1..Len(p.topic_performance) :
          LET e == p.topic_performance[j]
          IN  /\ e.topic = normalized(e.topic)
              /\ on_topic(p, e.topic) # {}
              /\ e.total_attempts = Cardinality(on_topic(p, e.topic))
              /\ e.correct_attempts = Cardinality(on_topic_correct(p, e.topic))
              /\ \A k \in 1..Len(p.topic_performance) :
                    p.topic_performance[k].topic = e.topic => k = j

\* C26 as stated: the entries are keyed and counted as above, and the topic
\* totals add up to the length of the attempt history: every attempt is
\* counted in exactly one topic aggregate.
C26_TopicTotalsCoverHistory ==
    \A l \in DOMAIN profiles :
        /\ KeyedByNormalizedTopic(profiles[l])
        /\ sum_totals(profiles[l].topic_performance) = Len(profiles[l].attempts)

\* C26 amended: the entries are keyed and counted as above; an attempt whose
\* topic is empty once lower-cased and trimmed is counted in no topic
\* aggregate, and the topic totals add up to the number of the other
\* attempts, each counted in exactly one aggregate.
C26_TopicTotalsCoverTopics ==
    \A l \in DOMAIN profiles :
        LET p == profiles[l]
        IN  /\ KeyedByNormalizedTopic(p)
            /\ \A j \in 1..Len(p.topic_performance) : p.topic_performance[j].topic # <<>>
            /\ \A i \in 1..Len(p.attempts) :
                  normalized(p.attempts[i].topic) # <<>> =>
                      \E j \in 1..Len(p.topic_performance) :
                          p.topic_performance[j].topic = normalized(p.attempts[i].topic)
            /\ sum_totals(p.topic_performance)
                  = Cardinality({i \in 1..Len(p.attempts) : normalized(p.attempts[i].topic) # <<>>})

\* "A a" and "a a " counted under one key, a blank topic counted nowhere.
C26_Witness ==
    \E l \in DOMAIN profiles :
        LET p == profiles[l]
        IN  /\ Len(p.attempts) = 3
            /\ \E i, j, k \in 1..3 :
                  /\ p.attempts[i].topic = TopicA
                  /\ p.attempts[j].topic = TopicB
                  /\ p.attempts[k].topic = BlankTopic
            /\ Len(p.topic_performance) = 1
            /\ p.topic_performance[1].total_attempts = 2

\* C27: a completed session is frozen: its question list and its answers no
\* longer change, so its stored score is 100 * correct / number of questions
\* over the question list it has now (0 when it has none).
C27_CompletedIsFrozen ==
    [][\A sid \in DOMAIN sessions \cap DOMAIN sessions' :
          (sessions[sid].status = "completed" /\ sessions'[sid].status = "completed") =>
              /\ sessions'[sid].questions = sessions[sid].questions
              /\ frac_eq(sessions'[sid].score[1],
                         score_of(correct_count(sessions'[sid].questions),
                                  Len(sessions'[sid].questions)))]_vars

TierRank(tier) ==
    CASE tier = "novice" -> 0
      [] tier = "beginner" -> 1
      [] tier = "intermediate" -> 2
      [] tier = "advanced" -> 3
      [] tier = "expert" -> 4

\* C28: a correct attempt never lowers a skill's tier: at every step that
\* adds one correct attempt to a skill, from (n, c) to (n + 1, c + 1), the
\* tier after is at least the tier before in the order novice < beginner <
\* intermediate < advanced < expert, the steps 1 -> 2, 3 -> 4 and 7 -> 8
\* across the brackets included.
C28_CorrectNeverDemotes ==
    [][\A l \in DOMAIN profiles \cap DOMAIN profiles' :
          \A j \in 1..Len(profiles[l].skill_performance) :
              LET e == profiles[l].skill_performance[j]
                  f == profiles'[l].skill_performance[j]
              IN  (/\ f.total_attempts = e.total_attempts + 1
                   /\ f.correct_attempts = e.correct_attempts + 1)
                      => TierRank(f.proficiency_level) >= TierRank(e.proficiency_level)]_vars

\* 7 of 8 correct, the eighth attempt a correct one after 6 of 7 (advanced).
C28_Witness ==
    \E l \in DOMAIN profiles : \E j \in 1..Len(profiles[l].skill_performance) :
        LET e == profiles[l].skill_performance[j]
        IN  /\ e.total_attempts = 8 /\ e.correct_attempts = 7
            /\ e.proficiency_level = "expert"
            /\ profiles[l].attempts[8].correct
            /\ _calculate_proficiency(Frac(6, 7), 7) = "advanced"

\* The difficulty strings in their order, the three tiers first.
DifficultyRank(d) ==
    CASE d = "beginner" -> 1
      [] d = "intermediate" -> 2
      [] d = "advanced" -> 3
      [] d = "expert" -> 4

\* The function looks at answered questions: the session has at least 3
\* questions and at least one of them is answered.
Examines(qs) == Len(qs) >= 3 /\ answered_indices(qs) # {}

\* At saturation: at advanced with at least 2 of the examined correct, or at
\* beginner with at most 1.
Saturated(d, k) == (d = "advanced" /\ k >= 2) \/ (d = "beginner" /\ k <= 1)

\* C29 as stated: the result is always beginner, intermediate or advanced,
\* whatever the difficulty strings of the questions; and whenever answered
\* questions are examined, it is exactly one tier above or below the
\* difficulty of the last examined question, or that same tier at saturation
\* only.
C29_OneTierMove ==
    \A sid \in DOMAIN sessions :
        LET qs == sessions[sid].questions
            r == get_adaptive_next_difficulty(sid)
        IN  /\ r \in Tiers
            /\ Examines(qs) =>
                  LET d == qs[LastOf(Examined(qs))].difficulty
                      k == Cardinality(Examined(qs) \cap correct_indices(qs))
                  IN  \/ DifficultyRank(r) = DifficultyRank(d) + 1
                      \/ DifficultyRank(r) = DifficultyRank(d) - 1
                      \/ r = d /\ Saturated(d, k)

\* C29 amended: the result is always one of the three tiers; when the last
\* examined question's difficulty d is one of them, the result is one tier
\* above or below d, or d itself at saturation only; when d is any other
\* string, the result is advanced with at least 2 of the examined correct and
\* beginner otherwise.
C29_OneTierMoveOnLadder ==
    \A sid \in DOMAIN sessions :
        LET qs == sessions[sid].questions
            r == get_adaptive_next_difficulty(sid)
        IN  /\ r \in Tiers
            /\ Examines(qs) =>
                  LET d == qs[LastOf(Examined(qs))].difficulty
                      k == Cardinality(Examined(qs) \cap correct_indices(qs))
                  IN  IF d \in Tiers
                      THEN /\ r \in {TierAbove(d), TierBelow(d)}
                           /\ r = d => Saturated(d, k)
                           /\ r # d => (DifficultyRank(r) - DifficultyRank(d)) \in {-1, 1}
                      ELSE r = (IF k >= 2 THEN "advanced" ELSE "beginner")

\* Three answered questions, one of them correct, the last one at
\* intermediate: one tier down; the first one carries another string.
C29_Witness ==
    \E sid \in DOMAIN sessions :
        LET qs == sessions[sid].questions
        IN  /\ Len(qs) = 3
            /\ qs[1].difficulty = "expert"
            /\ qs[1].is_correct = <<TRUE>>
            /\ qs[2].is_correct = <<FALSE>>
            /\ qs[3].is_correct = <<FALSE>>
            /\ qs[3].difficulty = "intermediate"
            /\ get_adaptive_next_difficulty(sid) = "beginner"

RECURSIVE sum_over(_, _)
sum_over(f, keys) ==
    IF keys = {} THEN 0
    ELSE LET key == CHOOSE x \in keys : TRUE
         IN  f[key].total + sum_over(f, keys \ {key})

\* The summary leaves every table as it was, and every correct count in it
\* is at most its total.
SummaryIsSound(r) ==
    /\ Unchanged(r)
    /\ r.outcome = "ok" =>
          LET v == r.value[1]
          IN  /\ \A d \in DOMAIN v.difficulty_performance :
                    v.difficulty_performance[d].correct <= v.difficulty_performance[d].total
              /\ \A sk \in DOMAIN v.skill_performance :
                    v.skill_performance[sk].correct <= v.skill_performance[sk].total
              /\ \A t \in DOMAIN v.topic_performance :
                    v.topic_performance[t].correct <= v.topic_performance[t].total

\* C30 as stated: get_session_summary changes no state, every correct count
\* of its result is at most its total, the per-topic totals add up to the
\* number of questions, and so do the totals of the three difficulty buckets
\* beginner, intermediate, advanced.
C30_BucketsCoverQuestions ==
    \A sid \in SessionIds :
        LET r == get_session_summary_step(sid)
        IN  /\ SummaryIsSound(r)
            /\ r.outcome = "ok" =>
                  LET v == r.value[1]
                      n == Len(sessions[sid].questions)
                  IN  /\ sum_over(v.topic_performance, DOMAIN v.topic_performance) = n
                      /\ DOMAIN v.difficulty_performance = Tiers
                      /\ sum_over(v.difficulty_performance, Tiers) = n

\* C30 amended: the same, the totals of the three difficulty buckets adding
\* up to the number of questions whose difficulty is beginner, intermediate
\* or advanced; a question of any other difficulty is in no bucket.
C30_BucketsCoverTiers ==
    \A sid \in SessionIds :
        LET r == get_session_summary_step(sid)
        IN  /\ SummaryIsSound(r)
            /\ sid \in DOMAIN sessions <=> r.outcome = "ok"
            /\ r.outcome = "ok" =>
                  LET v == r.value[1]
                      qs == sessions[sid].questions
                  IN  /\ sum_over(v.topic_performance, DOMAIN v.topic_performance) = Len(qs)
                      /\ DOMAIN v.difficulty_performance = Tiers
                      /\ sum_over(v.difficulty_performance, Tiers)
                            = Cardinality({i \in 1..Len(qs) : qs[i].difficulty \in Tiers})

\* Two questions on two topics, one of them at a difficulty outside the
\* three buckets, one answered correctly and one incorrectly.
C30_Witness ==
    \E sid \in DOMAIN sessions :
        LET qs == sessions[sid].questions
            v == get_session_summary_step(sid).value[1]
        IN  /\ Len(qs) = 2
            /\ qs[1].topic = TopicA /\ qs[2].topic = TopicC
            /\ qs[1].difficulty = "expert" /\ qs[2].difficulty = "advanced"
            /\ qs[1].is_correct = <<TRUE>> /\ qs[2].is_correct = <<FALSE>>
            /\ v.difficulty_performance["advanced"].total = 1
            /\ v.topic_performance[TopicA].correct = 1

====
